---- MODULE Spec2Model ----
(***************************************************************************)
(* Verification model of the Instagram outreach and conversation engine    *)
(* (src/ig_agent_Cursor): the per-client rate limiter, account discovery   *)
(* with de-duplication, the outreach batch executor, the keyword stage     *)
(* classifier and the inbound-DM handler.                                  *)
(*                                                                         *)
(* Time is counted in seconds.  Message texts are sequences of one-        *)
(* character strings, so that lower-casing and substring search are        *)
(* computed character by character, as str.lower() and the `in` operator   *)
(* do.                                                                     *)
(***************************************************************************)
EXTENDS Integers, Sequences, FiniteSets, TLC

VARIABLES
    now,                  \* wall clock (datetime.now() / datetime.utcnow()), in seconds
    rate_limit_tracker,   \* InstagramClient.rate_limit_tracker, one per client instance
    target_accounts,      \* table target_accounts, rows in insertion order
    campaigns,            \* table outreach_campaigns, row i has id i
    conversations,        \* table conversations, row i has id i
    messages,             \* table messages, rows in insertion order
    tasks,                \* the running execute_outreach_batch coroutines
    sent,                 \* history: every DM the platform accepted (direct_send returned)
    fragments,            \* the fragments of the text handed to the classifier
    threads,              \* the platform's direct threads: the latest message of each
    enable_auto_response, \* settings.enable_auto_response
    agent,                \* InstagramAIAgent: is_running, its client's login, its loops
    ev                    \* history: the last operation, its inputs and its results

vars == << now, rate_limit_tracker, target_accounts, campaigns, conversations,
           messages, tasks, sent, fragments, threads, enable_auto_response, agent,
           ev >>

NULL == "None"

\* a DateTime column that holds no value (times are seconds, never negative)
NEVER == 0 - 1

-----------------------------------------------------------------------------
(* Text: str.lower() and the substring test `sub in s`.                    *)

UpperCase ==
    << "A", "B", "C", "D", "E", "F", "G", "H", "I", "J", "K", "L", "M",
       "N", "O", "P", "Q", "R", "S", "T", "U", "V", "W", "X", "Y", "Z" >>

LowerCase ==
    << "a", "b", "c", "d", "e", "f", "g", "h", "i", "j", "k", "l", "m",
       "n", "o", "p", "q", "r", "s", "t", "u", "v", "w", "x", "y", "z" >>

UpperToLower ==
    [ c \in { UpperCase[i] : i \in DOMAIN UpperCase } |->
        LowerCase[CHOOSE i \in DOMAIN UpperCase : UpperCase[i] = c] ]

LowerChar(c) == IF c \in DOMAIN UpperToLower THEN UpperToLower[c] ELSE c

Lower(s) == [i \in DOMAIN s |-> LowerChar(s[i])]

Contains(s, sub) ==
    \E off \in 0..(Len(s) - Len(sub)) :
        \A j \in 1..Len(sub) : s[off + j] = sub[j]

AnyIn(words, s) == \E k \in DOMAIN words : Contains(s, words[k])

-----------------------------------------------------------------------------
(* ConversationManager: the keyword lists, in the order of the code.       *)

response_indicators ==
    << <<"t", "h", "a", "n", "k", " ", "y", "o", "u">>,
       <<"t", "h", "a", "n", "k", "s">>,
       <<"i", "n", "t", "e", "r", "e", "s", "t", "e", "d">>,
       <<"t", "e", "l", "l", " ", "m", "e", " ", "m", "o", "r", "e">>,
       <<"p", "r", "i", "c", "i", "n", "g">>,
       <<"c", "o", "s", "t">>,
       <<"s", "e", "r", "v", "i", "c", "e", "s">>,
       <<"p", "o", "r", "t", "f", "o", "l", "i", "o">>,
       <<"w", "e", "b", "s", "i", "t", "e">>,
       <<"c", "o", "n", "t", "a", "c", "t">>,
       <<"h", "e", "l", "l", "o">>,
       <<"h", "i">>,
       <<"h", "e", "y">>,
       <<"s", "o", "u", "n", "d", "s", " ", "g", "o", "o", "d">>,
       <<"l", "o", "o", "k", "s", " ", "g", "r", "e", "a", "t">> >>

pricing_words ==
    << <<"p", "r", "i", "c", "i", "n", "g">>,
       <<"c", "o", "s", "t">>,
       <<"p", "r", "i", "c", "e">>,
       <<"h", "o", "w", " ", "m", "u", "c", "h">> >>

portfolio_words ==
    << <<"p", "o", "r", "t", "f", "o", "l", "i", "o">>,
       <<"w", "o", "r", "k">>,
       <<"e", "x", "a", "m", "p", "l", "e", "s">>,
       <<"s", "a", "m", "p", "l", "e", "s">> >>

meeting_words ==
    << <<"m", "e", "e", "t", "i", "n", "g">>,
       <<"c", "a", "l", "l">>,
       <<"d", "i", "s", "c", "u", "s", "s">>,
       <<"t", "a", "l", "k">> >>

interest_words ==
    << <<"i", "n", "t", "e", "r", "e", "s", "t", "e", "d">>,
       <<"t", "e", "l", "l", " ", "m", "e", " ", "m", "o", "r", "e">>,
       <<"s", "o", "u", "n", "d", "s", " ", "g", "o", "o", "d">> >>

IsOutreachResponseLoose(text) == AnyIn(response_indicators, text)

_is_outreach_response(text) == AnyIn(response_indicators, Lower(text))

StagePortfolioFirst(text) ==
    LET content_lower == Lower(text) IN
    IF AnyIn(portfolio_words, content_lower) THEN "portfolio_request"
    ELSE IF AnyIn(pricing_words, content_lower) THEN "pricing_inquiry"
    ELSE IF AnyIn(meeting_words, content_lower) THEN "meeting_request"
    ELSE IF AnyIn(interest_words, content_lower) THEN "initial_interest"
    ELSE "initial"

_determine_outreach_stage(text) ==
    LET content_lower == Lower(text) IN
    IF AnyIn(pricing_words, content_lower) THEN "pricing_inquiry"
    ELSE IF AnyIn(portfolio_words, content_lower) THEN "portfolio_request"
    ELSE IF AnyIn(meeting_words, content_lower) THEN "meeting_request"
    ELSE IF AnyIn(interest_words, content_lower) THEN "initial_interest"
    ELSE "initial"

-----------------------------------------------------------------------------
(* The texts the classifier is run on: up to MaxFragments fragments,       *)
(* joined.  Keywords of every group occur, in both cases, and so do the    *)
(* example sentences.                                                      *)

MaxFragments == 3

Fragments ==
    { <<"W", "h", "a", "t", "'", "s", " ", "y", "o", "u", "r", " ">>,
      <<"p", "r", "i", "c", "i", "n", "g">>,
      <<"?">>,
      <<"C", "a", "n", " ", "w", "e", " ", "s", "e", "t", " ", "u", "p", " ", "a", " ">>,
      <<"c", "a", "l", "l">>,
      <<"h", "e", "l", "l", "o">>,
      <<"t", "h", "a", "n", "k", "s", ",", " ">>,
      <<"i", "n", "t", "e", "r", "e", "s", "t", "e", "d">>,
      <<"!">>,
      <<"a", "s", "d", "f", "g", "h">>,
      <<"t", "e", "l", "l", " ", "m", "e", " ", "m", "o", "r", "e">>,
      <<"P", "O", "R", "T", "F", "O", "L", "I", "O">>,
      <<"S", "o", "u", "n", "d", "s", " ", "G", "o", "o", "d">> }

-----------------------------------------------------------------------------
(* Settings and durations.                                                 *)

HOUR == 3600
DAY == 86400
COOLDOWN_DAYS == 7

\* settings.max_dm_per_hour (config.py:36, MAX_DM_PER_HOUR, default 10): a small cap
max_dm_per_hour == 2

\* settings.max_outreach_per_day (config.py:37, MAX_OUTREACH_PER_DAY, default 50)
max_outreach_per_day == 1

\* the clock reading when the process starts: late enough for persisted
\* timestamps that are older than the cooldown
StartTime == (COOLDOWN_DAYS + 1) * DAY

\* the clock stops here
MaxHours == 2
EndTime == StartTime + MaxHours * HOUR

Clients == { "agent", "conversation_manager", "outreach_manager" }

\* the agent's own client only logs in and polls; the two managers send
SendingClients == { "conversation_manager", "outreach_manager" }

-----------------------------------------------------------------------------
(* InstagramClient                                                         *)

NewTracker(t) ==
    [ dms_sent |-> 0, last_dm_reset |-> t,
      outreach_sent |-> 0, last_outreach_reset |-> t ]

\* a mutant: the cap compared with <= instead of <
CheckRateLimitOffByOne(tr, action_type, t) ==
    IF action_type = "dms"
    THEN LET r == IF t - tr.last_dm_reset > HOUR
                  THEN [tr EXCEPT !.dms_sent = 0, !.last_dm_reset = t]
                  ELSE tr
         IN  [ tracker |-> r, ok |-> r.dms_sent <= max_dm_per_hour ]
    ELSE IF action_type = "outreach"
    THEN LET r == IF t - tr.last_outreach_reset > DAY
                  THEN [tr EXCEPT !.outreach_sent = 0, !.last_outreach_reset = t]
                  ELSE tr
         IN  [ tracker |-> r, ok |-> r.outreach_sent < max_outreach_per_day ]
    ELSE [ tracker |-> tr, ok |-> TRUE ]

\* _check_rate_limit: the tracker after the call, and the value returned
_check_rate_limit(tr, action_type, t) ==
    IF action_type = "dms"
    THEN LET r == IF t - tr.last_dm_reset > HOUR
                  THEN [tr EXCEPT !.dms_sent = 0, !.last_dm_reset = t]
                  ELSE tr
         IN  [ tracker |-> r, ok |-> r.dms_sent < max_dm_per_hour ]
    ELSE IF action_type = "outreach"
    THEN LET r == IF t - tr.last_outreach_reset > DAY
                  THEN [tr EXCEPT !.outreach_sent = 0, !.last_outreach_reset = t]
                  ELSE tr
         IN  [ tracker |-> r, ok |-> r.outreach_sent < max_outreach_per_day ]
    ELSE [ tracker |-> tr, ok |-> TRUE ]

\* a mutant: a send that did not go through is reported as sent
SendDmReportingSuccess(tr, t, delivers) ==
    LET chk == _check_rate_limit(tr, "dms", t) IN
    IF ~chk.ok THEN [ tracker |-> chk.tracker, result |-> FALSE ]
    ELSE [ tracker |-> [chk.tracker EXCEPT !.dms_sent = @ + 1], result |-> TRUE ]

\* send_dm at time t; `delivers` says whether client.direct_send returns
\* (TRUE) or raises (FALSE).  Gives the tracker after the call and the value
\* returned.
send_dm(tr, t, delivers) ==
    LET chk == _check_rate_limit(tr, "dms", t) IN
    IF ~chk.ok THEN [ tracker |-> chk.tracker, result |-> FALSE ]
    ELSE IF delivers
         THEN [ tracker |-> [chk.tracker EXCEPT !.dms_sent = @ + 1], result |-> TRUE ]
         ELSE [ tracker |-> chk.tracker, result |-> FALSE ]

-----------------------------------------------------------------------------
(* Initial state: the objects as their constructors leave them.            *)

InitClock == now = StartTime

\* the four loops of the supervisor
AllLoops ==
    { "_monitor_dms", "_monitor_outreach_responses", "_periodic_cleanup",
      "_run_outreach_campaigns" }

\* who calls stop(): main() in its finally clause, and the task that
\* _signal_handler creates
StopCallers == { "main", "signal" }

\* InstagramAIAgent.__init__.  tasks: the loops that have not terminated;
\* start: how far main()'s call of start() has come; stop: how far each call
\* of stop() has come; stopped: a call of stop() has returned; db_closed:
\* db_manager.close() has been called; signal_sent: how many messages had
\* been delivered when the signal arrived (history); ahead: the loops whose
\* cycle may still run between the signal and the first step of the task
\* that the handler created; wake: when the sleep of each loop ends; last:
\* the time and the outcome of each loop's latest cycle (history);
\* is_logged_in: of the agent's own client; manager_logins: is_logged_in of
\* the client that each manager constructs for itself
NewAgent ==
    [ is_running |-> FALSE, is_logged_in |-> FALSE,
      manager_logins |-> [c \in SendingClients |-> FALSE], tasks |-> { },
      start |-> "not called", stopped |-> FALSE,
      stop |-> [c \in StopCallers |-> "not called"], db_closed |-> FALSE,
      signal_sent |-> 0, ahead |-> { },
      wake |-> [l \in AllLoops |-> 0],
      last |-> [l \in AllLoops |-> [ at |-> NEVER, error |-> FALSE ]] ]

InitClients ==
    /\ rate_limit_tracker = [c \in Clients |-> NewTracker(StartTime)]
    /\ agent = NewAgent

InitEmptyTables ==
    /\ target_accounts = << >>
    /\ campaigns = << >>
    /\ conversations = << >>
    /\ messages = << >>

InitHistory ==
    /\ sent = << >>
    /\ ev = [ op |-> "none" ]

-----------------------------------------------------------------------------
(* The clock.                                                              *)

Tick(d) ==
    /\ now + d <= EndTime
    /\ now' = now + d
    /\ UNCHANGED << rate_limit_tracker, target_accounts, campaigns, conversations,
                    messages, tasks, sent, fragments, threads, enable_auto_response, agent, ev >>

-----------------------------------------------------------------------------------------------------------------------------------------------------
(* Specification SpecClassify: the classifier on the texts above.          *)

RECURSIVE Join(_)
Join(fs) == IF fs = << >> THEN << >> ELSE Head(fs) \o Join(Tail(fs))

AppendFragment(f) ==
    /\ Len(fragments) < MaxFragments
    /\ fragments' = Append(fragments, f)
    /\ ev' = [ op |-> "none" ]
    /\ UNCHANGED << now, rate_limit_tracker, target_accounts, campaigns,
                    conversations, messages, tasks, sent, threads, enable_auto_response,
                    agent >>

\* content = Join(fragments) is classified by both predicates
Classify ==
    /\ ev.op = "none"
    /\ ev' = [ op |-> "classify",
               text |-> Join(fragments),
               is_outreach_response |-> _is_outreach_response(Join(fragments)),
               outreach_stage |-> _determine_outreach_stage(Join(fragments)) ]
    /\ UNCHANGED << now, rate_limit_tracker, target_accounts, campaigns,
                    conversations, messages, tasks, sent, fragments, threads,
                    enable_auto_response, agent >>

InitClassify ==
    /\ InitClock /\ InitClients /\ InitEmptyTables /\ InitHistory
    /\ tasks = << >>
    /\ fragments = << >>
    /\ threads = << >>
    /\ enable_auto_response = TRUE

NextClassify ==
    \/ \E f \in Fragments : AppendFragment(f)
    \/ Classify

SpecClassify == InitClassify /\ [][NextClassify]_vars

-----------------------------------------------------------------------------
(* Specification SpecQuota: send_dm calls on the sending client instances,  *)
(* while the clock advances by half an hour, an hour, or an hour and a     *)
(* second.                                                                 *)

MaxSent == 4

QuotaSteps == { HOUR \div 2, HOUR, HOUR + 1 }

\* one send_dm call on client c; user_id and message do not matter here
SendDm(c, delivers) ==
    /\ Len(sent) < MaxSent
    /\ LET r == send_dm(rate_limit_tracker[c], now, delivers) IN
        /\ rate_limit_tracker' = [rate_limit_tracker EXCEPT ![c] = r.tracker]
        /\ sent' = IF r.result
                   THEN Append(sent, [ client |-> c, to |-> NULL, at |-> now,
                                       window |-> r.tracker.last_dm_reset,
                                       kind |-> "dm" ])
                   ELSE sent
        /\ ev' = [ op |-> "send_dm", client |-> c, at |-> now,
                   before |-> rate_limit_tracker[c], result |-> r.result ]
    /\ UNCHANGED << now, target_accounts, campaigns, conversations, messages,
                    tasks, fragments, threads, enable_auto_response, agent >>

InitQuota ==
    /\ InitClock /\ InitClients /\ InitEmptyTables /\ InitHistory
    /\ tasks = << >>
    /\ fragments = << >>
    /\ threads = << >>
    /\ enable_auto_response = TRUE

NextQuota ==
    \/ \E c \in SendingClients, delivers \in BOOLEAN : SendDm(c, delivers)
    \/ \E d \in QuotaSteps : Tick(d)

SpecQuota == InitQuota /\ [][NextQuota]_vars

-----------------------------------------------------------------------------
(* Settings of the targeting (config.py) and the keyword table of          *)
(* OutreachManager._get_industry_keywords.                                 *)

target_locations ==
    << <<"D", "u", "b", "a", "i">>,
       <<"U", "A", "E">> >>

target_industries ==
    << <<"r", "e", "a", "l", "_", "e", "s", "t", "a", "t", "e">>,
       <<"p", "r", "o", "p", "e", "r", "t", "y">>,
       <<"c", "o", "n", "s", "t", "r", "u", "c", "t", "i", "o", "n">>,
       <<"a", "r", "c", "h", "i", "t", "e", "c", "t", "u", "r", "e">> >>

target_keywords ==
    << <<"r", "e", "a", "l", " ", "e", "s", "t", "a", "t", "e">>,
       <<"d", "u", "b", "a", "i", " ", "p", "r", "o", "p", "e", "r", "t", "i", "e", "s">>,
       <<"p", "r", "o", "p", "e", "r", "t", "y", " ", "d", "e", "v", "e", "l", "o", "p", "m", "e", "n", "t">>,
       <<"r", "e", "a", "l", " ", "e", "s", "t", "a", "t", "e", " ", "m", "a", "r", "k", "e", "t", "i", "n", "g">> >>

real_estate_keywords ==
    << <<"r", "e", "a", "l", " ", "e", "s", "t", "a", "t", "e">>,
       <<"p", "r", "o", "p", "e", "r", "t", "y">>,
       <<"r", "e", "a", "l", "t", "o", "r">>,
       <<"r", "e", "a", "l", "t", "y">>,
       <<"h", "o", "m", "e", "s">>,
       <<"h", "o", "u", "s", "e", "s">>,
       <<"a", "p", "a", "r", "t", "m", "e", "n", "t", "s">>,
       <<"c", "o", "n", "d", "o", "s">>,
       <<"v", "i", "l", "l", "a", "s">>,
       <<"c", "o", "m", "m", "e", "r", "c", "i", "a", "l", " ", "p", "r", "o", "p", "e", "r", "t", "y">>,
       <<"r", "e", "a", "l", " ", "e", "s", "t", "a", "t", "e", " ", "a", "g", "e", "n", "t">> >>

construction_keywords ==
    << <<"c", "o", "n", "s", "t", "r", "u", "c", "t", "i", "o", "n">>,
       <<"b", "u", "i", "l", "d", "i", "n", "g">>,
       <<"c", "o", "n", "t", "r", "a", "c", "t", "o", "r">>,
       <<"d", "e", "v", "e", "l", "o", "p", "e", "r">>,
       <<"c", "o", "n", "s", "t", "r", "u", "c", "t", "i", "o", "n", " ", "c", "o", "m", "p", "a", "n", "y">>,
       <<"b", "u", "i", "l", "d", "i", "n", "g", " ", "c", "o", "n", "t", "r", "a", "c", "t", "o", "r">>,
       <<"c", "o", "n", "s", "t", "r", "u", "c", "t", "i", "o", "n", " ", "s", "e", "r", "v", "i", "c", "e", "s">>,
       <<"g", "e", "n", "e", "r", "a", "l", " ", "c", "o", "n", "t", "r", "a", "c", "t", "o", "r">> >>

architecture_keywords ==
    << <<"a", "r", "c", "h", "i", "t", "e", "c", "t", "u", "r", "e">>,
       <<"a", "r", "c", "h", "i", "t", "e", "c", "t">>,
       <<"a", "r", "c", "h", "i", "t", "e", "c", "t", "u", "r", "a", "l", " ", "d", "e", "s", "i", "g", "n">>,
       <<"b", "u", "i", "l", "d", "i", "n", "g", " ", "d", "e", "s", "i", "g", "n">>,
       <<"i", "n", "t", "e", "r", "i", "o", "r", " ", "d", "e", "s", "i", "g", "n">>,
       <<"l", "a", "n", "d", "s", "c", "a", "p", "e", " ", "a", "r", "c", "h", "i", "t", "e", "c", "t", "u", "r", "e">>,
       <<"a", "r", "c", "h", "i", "t", "e", "c", "t", "u", "r", "a", "l", " ", "f", "i", "r", "m">> >>

IndustryReal == <<"r", "e", "a", "l", "_", "e", "s", "t", "a", "t", "e">>

IndustryConstruction == <<"c", "o", "n", "s", "t", "r", "u", "c", "t", "i", "o", "n">>

IndustryArchitecture == <<"a", "r", "c", "h", "i", "t", "e", "c", "t", "u", "r", "e">>

_get_industry_keywords(industry) ==
    IF industry = IndustryReal THEN real_estate_keywords
    ELSE IF industry = IndustryConstruction THEN construction_keywords
    ELSE IF industry = IndustryArchitecture THEN architecture_keywords
    ELSE << industry >>

MIN_FOLLOWERS == 100
MAX_FOLLOWERS == 100000
DEFAULT_MAX_ACCOUNTS == 100

-----------------------------------------------------------------------------
(* The platform's users that the hashtag searches show, and the campaigns  *)
(* an operator creates.                                                    *)

LocationDubai == <<"D", "u", "b", "a", "i">>

BioRealtor == <<"D", "u", "b", "a", "i", " ", "R", "E", "A", "L", "T", "O", "R">>

BioDeveloper == <<"H", "o", "m", "e", "s", " ", "d", "e", "v", "e", "l", "o", "p", "e", "r", " ", "U", "A", "E">>

BioChef == <<"D", "u", "b", "a", "i", " ", "c", "h", "e", "f">>

NoName == << >>

User(u, n, priv, bio) ==
    [ username |-> u, full_name |-> NoName, bio |-> bio,
      follower_count |-> n, is_private |-> priv ]

\* the users the platform shows; u1 and u3 are shown with two follower counts
Users ==
    { User("u1", 500, FALSE, BioRealtor),
      User("u1", 1500, FALSE, BioRealtor),
      User("u2", 1500, FALSE, BioDeveloper),
      User("u3", 100000, FALSE, BioRealtor),
      User("u3", 100001, FALSE, BioRealtor),
      User("u4", 800, TRUE, BioRealtor),
      User("u5", 800, FALSE, BioChef) }

\* one more user, shown with the two follower counts around MIN_FOLLOWERS
SmallUsers ==
    { User("u6", 99, FALSE, BioRealtor),
      User("u6", 100, FALSE, BioRealtor) }

Locations == { LocationDubai }

Industries == { IndustryReal, IndustryConstruction }

-----------------------------------------------------------------------------
(* InstagramClient.search_accounts_by_keywords.  `found` is the list of    *)
(* the users of the recent media of all keywords, in the order the         *)
(* hashtag searches return them.                                           *)

\* any(location.lower() in bio_lower ...) returning the first location
_extract_location_from_bio(bio) ==
    IF \E k \in DOMAIN target_locations :
           Contains(Lower(bio), Lower(target_locations[k]))
    THEN target_locations[
             CHOOSE k \in DOMAIN target_locations :
                 /\ Contains(Lower(bio), Lower(target_locations[k]))
                 /\ \A m \in 1..(k - 1) :
                        ~Contains(Lower(bio), Lower(target_locations[m]))]
    ELSE NULL

InBioOrName(user, word) ==
    \/ Contains(Lower(user.bio), Lower(word))
    \/ Contains(Lower(user.full_name), Lower(word))

_is_relevant_account(user, location) ==
    \/ \E k \in DOMAIN target_keywords : InBioOrName(user, target_keywords[k])
    \/ \E k \in DOMAIN target_industries : InBioOrName(user, target_industries[k])
    \/ /\ location # << >>
       /\ InBioOrName(user, location)

\* the account dict appended for a relevant user (the fields used later)
AccountDict(user) ==
    [ username |-> user.username, full_name |-> user.full_name, bio |-> user.bio,
      follower_count |-> user.follower_count, is_private |-> user.is_private,
      location |-> _extract_location_from_bio(user.bio) ]

\* the loop over the media users, filling `accounts`
\* AccountDict and _is_relevant_account, evaluated once for each user
AccountDictOf == [ u \in Users \cup SmallUsers |-> AccountDict(u) ]

IsRelevant ==
    [ u \in Users \cup SmallUsers, location \in Locations |->
        _is_relevant_account(u, location) ]

RECURSIVE RelevantAccounts(_, _)
RelevantAccounts(found, location) ==
    IF found = << >> THEN << >>
    ELSE IF IsRelevant[Head(found), location]
         THEN << AccountDictOf[Head(found)] >> \o RelevantAccounts(Tail(found), location)
         ELSE RelevantAccounts(Tail(found), location)

IndexOfUsername(rows, u) ==
    IF \E i \in DOMAIN rows : rows[i].username = u
    THEN CHOOSE i \in DOMAIN rows : rows[i].username = u
    ELSE 0

\* a mutant: the first entry of a username is kept, whatever its follower count
RECURSIVE UniqueKeepFirst(_, _)
UniqueKeepFirst(accounts, unique) ==
    IF accounts = << >> THEN unique
    ELSE LET account == Head(accounts)
             k == IndexOfUsername(unique, account.username)
         IN  IF k = 0
             THEN UniqueKeepFirst(Tail(accounts), Append(unique, account))
             ELSE UniqueKeepFirst(Tail(accounts), unique)

\* the loop filling the dict unique_accounts (a dict keeps the position of a
\* key whose value is replaced); `unique` is the dict so far
RECURSIVE unique_accounts(_, _)
unique_accounts(accounts, unique) ==
    IF accounts = << >> THEN unique
    ELSE LET account == Head(accounts)
             k == IndexOfUsername(unique, account.username)
         IN  IF k = 0
             THEN unique_accounts(Tail(accounts), Append(unique, account))
             ELSE IF account.follower_count > unique[k].follower_count
                  THEN unique_accounts(Tail(accounts), [unique EXCEPT ![k] = account])
                  ELSE unique_accounts(Tail(accounts), unique)

\* a mutant: the slice is left out
TakeAll(s, n) == s

Take(s, n) == SubSeq(s, 1, IF Len(s) < n THEN Len(s) ELSE n)

search_accounts_by_keywords(found, location, max_results) ==
    Take(unique_accounts(RelevantAccounts(found, location), << >>), max_results)

\* the try block around the loop over the keywords: when hashtag_info or
\* hashtag_medias_recent raises for one keyword, the except clause returns
\* [].  `found` holds the users of the media of the other keywords
search_accounts_try(found, raised, location, max_results) ==
    IF raised THEN << >>
    ELSE search_accounts_by_keywords(found, location, max_results)

-----------------------------------------------------------------------------
(* DatabaseManager and OutreachManager.discover_target_accounts.           *)

NewCampaign(industry, location) ==
    [ target_industry |-> industry, target_location |-> location, status |-> "active",
      accounts_targeted |-> 0, responses_received |-> 0, conversions |-> 0 ]

\* add_target_account: the row inserted; contact_attempts and last_contacted
\* take the column defaults
NewTargetAccount(account, category) ==
    [ username |-> account.username, follower_count |-> account.follower_count,
      category |-> category, location |-> account.location, status |-> "pending",
      last_contacted |-> NEVER, contact_attempts |-> 0 ]

add_target_account(rows, account, category) ==
    Append(rows, NewTargetAccount(account, category))

\* the last test of _should_target_account: an industry keyword in the bio
\* or in the name
HasIndustryKeyword(account, industry) ==
    \E k \in DOMAIN _get_industry_keywords(industry) :
        InBioOrName(account, _get_industry_keywords(industry)[k])

\* HasIndustryKeyword, evaluated once for each account dict and industry
MatchesIndustry ==
    [ a \in { AccountDictOf[u] : u \in Users \cup SmallUsers }, industry \in Industries |->
        HasIndustryKeyword(a, industry) ]

\* a mutant: the look-up of an existing row is left out
ShouldTargetIgnoringExisting(rows, account, campaign) ==
    /\ ~account.is_private
    /\ ~(account.follower_count < MIN_FOLLOWERS \/ account.follower_count > MAX_FOLLOWERS)
    /\ MatchesIndustry[account, campaign.target_industry]

\* a mutant: the test of is_private is left out
ShouldTargetKeepingPrivate(rows, account, campaign) ==
    /\ IndexOfUsername(rows, account.username) = 0
    /\ ~(account.follower_count < MIN_FOLLOWERS \/ account.follower_count > MAX_FOLLOWERS)
    /\ MatchesIndustry[account, campaign.target_industry]

_should_target_account(rows, account, campaign) ==
    /\ IndexOfUsername(rows, account.username) = 0
    /\ ~account.is_private
    /\ ~(account.follower_count < MIN_FOLLOWERS \/ account.follower_count > MAX_FOLLOWERS)
    /\ MatchesIndustry[account, campaign.target_industry]

\* the loop over discovered_accounts: the table after it
RECURSIVE SaveDiscovered(_, _, _)
SaveDiscovered(rows, discovered, campaign) ==
    IF discovered = << >> THEN rows
    ELSE IF _should_target_account(rows, Head(discovered), campaign)
         THEN SaveDiscovered(add_target_account(rows, Head(discovered),
                                                campaign.target_industry),
                             Tail(discovered), campaign)
         ELSE SaveDiscovered(rows, Tail(discovered), campaign)

\* the loop over discovered_accounts: the list saved_accounts after it, which
\* holds the rows that add_target_account returned
RECURSIVE saved_accounts(_, _, _)
saved_accounts(rows, discovered, campaign) ==
    IF discovered = << >> THEN << >>
    ELSE IF _should_target_account(rows, Head(discovered), campaign)
         THEN << NewTargetAccount(Head(discovered), campaign.target_industry) >>
                 \o saved_accounts(add_target_account(rows, Head(discovered),
                                                      campaign.target_industry),
                                   Tail(discovered), campaign)
         ELSE saved_accounts(rows, Tail(discovered), campaign)

LocationKeywords(campaign) ==
    IF campaign.target_location # << >> THEN << campaign.target_location >> ELSE << >>

-----------------------------------------------------------------------------
(* Specification SpecSearch: search_accounts_by_keywords on every list of  *)
(* up to MaxFound users.                                                   *)

MaxFound == 3

FoundLists ==
    UNION { [1..n -> Users] : n \in 1..MaxFound }

Search(found, location, max_results) ==
    /\ ev.op = "none"
    /\ ev' = [ op |-> "search_accounts_by_keywords",
               accounts |-> RelevantAccounts(found, location),
               unique |-> unique_accounts(RelevantAccounts(found, location), << >>),
               max_results |-> max_results,
               returned |-> search_accounts_by_keywords(found, location, max_results) ]
    /\ UNCHANGED << now, rate_limit_tracker, target_accounts, campaigns, conversations,
                    messages, tasks, sent, fragments, threads, enable_auto_response, agent >>

SearchReturns ==
    /\ ev.op = "search_accounts_by_keywords"
    /\ ev' = [ op |-> "none" ]
    /\ UNCHANGED << now, rate_limit_tracker, target_accounts, campaigns, conversations,
                    messages, tasks, sent, fragments, threads, enable_auto_response, agent >>

InitSearch ==
    /\ InitClock /\ InitClients /\ InitEmptyTables /\ InitHistory
    /\ tasks = << >>
    /\ fragments = << >>
    /\ threads = << >>
    /\ enable_auto_response = TRUE

NextSearch ==
    \/ \E found \in FoundLists, location \in Locations,
          max_results \in { 1, DEFAULT_MAX_ACCOUNTS } :
            Search(found, location, max_results)
    \/ SearchReturns

SpecSearch == InitSearch /\ [][NextSearch]_vars

-----------------------------------------------------------------------------
(* Specification SpecDiscover: discovery runs for two campaigns, one for   *)
(* each industry, on what the hashtag searches return.                     *)

MaxRows == 3

\* discover_target_accounts(campaign_id) on an existing campaign, with the
\* default max_accounts
Discover(campaign_id, found) ==
    /\ campaign_id \in DOMAIN campaigns
    /\ LET campaign == campaigns[campaign_id]
           discovered == search_accounts_by_keywords(found, campaign.target_location,
                                                     DEFAULT_MAX_ACCOUNTS)
           rows == SaveDiscovered(target_accounts, discovered, campaign)
           n == Len(rows) - Len(target_accounts)
       IN  /\ Len(rows) <= MaxRows
           /\ target_accounts' = rows
           /\ campaigns' = [campaigns EXCEPT ![campaign_id].accounts_targeted = n]
           /\ ev' = [ op |-> "discover_target_accounts", campaign_id |-> campaign_id,
                      known |-> { discovered[k].username : k \in DOMAIN discovered }
                                  \cap { target_accounts[k].username :
                                             k \in DOMAIN target_accounts },
                      saved |-> n ]
    /\ UNCHANGED << now, rate_limit_tracker, conversations, messages, tasks, sent,
                    fragments, threads, enable_auto_response, agent >>

\* discover_target_accounts on a campaign id that does not exist: returns []
DiscoverNoCampaign(campaign_id) ==
    /\ campaign_id \notin DOMAIN campaigns
    /\ ev' = [ op |-> "discover_target_accounts", campaign_id |-> campaign_id,
               known |-> { }, saved |-> 0 ]
    /\ UNCHANGED << now, rate_limit_tracker, target_accounts, campaigns, conversations,
                    messages, tasks, sent, fragments, threads, enable_auto_response, agent >>

\* the operator has created one campaign for each industry
InitDiscover ==
    /\ InitClock /\ InitClients /\ InitHistory
    /\ target_accounts = << >>
    /\ campaigns = << NewCampaign(IndustryReal, LocationDubai),
                      NewCampaign(IndustryConstruction, LocationDubai) >>
    /\ conversations = << >>
    /\ messages = << >>
    /\ tasks = << >>
    /\ fragments = << >>
    /\ threads = << >>
    /\ enable_auto_response = TRUE

NextDiscover ==
    \/ \E campaign_id \in 1..3, found \in FoundLists : Discover(campaign_id, found)
    \/ \E campaign_id \in 1..3 : DiscoverNoCampaign(campaign_id)

SpecDiscover == InitDiscover /\ [][NextDiscover]_vars

-----------------------------------------------------------------------------
(* DatabaseManager.get_target_accounts / update_target_account and         *)
(* OutreachManager.execute_outreach_batch.                                 *)
(*                                                                         *)
(* execute_outreach_batch is a coroutine: it runs without interruption     *)
(* from one asyncio.sleep to the next, so one loop iteration (eligibility  *)
(* check, profile fetch, send, update) is one step, and other coroutines   *)
(* run while it sleeps.  A task holds the rows it fetched by their         *)
(* position in the table (rows are never deleted or reordered).            *)

MIN_DELAY_BETWEEN_MESSAGES == 300
RANDOM_DELAY_MIN == 30
RANDOM_DELAY_MAX == 120
BATCH_SIZE == 5

\* random.randint(RANDOM_DELAY_MIN, RANDOM_DELAY_MAX): the longest delay
RandomDelays == { RANDOM_DELAY_MAX }

\* random.randint(RANDOM_DELAY_MIN, RANDOM_DELAY_MAX): both ends of the range
RandomDelayEnds == { RANDOM_DELAY_MIN, RANDOM_DELAY_MAX }

\* TargetAccount.location.contains(location): LIKE '%location%', which
\* SQLite compares without regard to case; a NULL column matches nothing
LocationContains(column, location) ==
    /\ column # NULL
    /\ Contains(Lower(column), Lower(location))

\* get_target_accounts(industry, location, status): the positions of the
\* matching rows, in table order
RECURSIVE SelectFrom(_, _, _, _, _)
SelectFrom(rows, k, industry, location, status) ==
    IF k > Len(rows) THEN << >>
    ELSE IF /\ (industry # << >> => rows[k].category = industry)
            /\ (location # << >> => LocationContains(rows[k].location, location))
            /\ (status # NULL => rows[k].status = status)
         THEN << k >> \o SelectFrom(rows, k + 1, industry, location, status)
         ELSE SelectFrom(rows, k + 1, industry, location, status)

get_target_accounts(rows, industry, location, status) ==
    SelectFrom(rows, 1, industry, location, status)

\* a mutant: last_contacted is not written
UpdateWithoutStamp(rows, username, status, last_contacted, contact_attempts) ==
    [ k \in DOMAIN rows |->
        IF k = IndexOfUsername(rows, username)
        THEN [rows[k] EXCEPT !.status = status, !.contact_attempts = contact_attempts]
        ELSE rows[k] ]

\* a mutant: contact_attempts is written back unchanged
UpdateWithoutCount(rows, username, status, last_contacted, contact_attempts) ==
    [ k \in DOMAIN rows |->
        IF k = IndexOfUsername(rows, username)
        THEN [rows[k] EXCEPT !.status = status, !.last_contacted = last_contacted]
        ELSE rows[k] ]

\* update_target_account(username, status=, last_contacted=, contact_attempts=)
update_target_account(rows, username, status, last_contacted, contact_attempts) ==
    [ k \in DOMAIN rows |->
        IF k = IndexOfUsername(rows, username)
        THEN [rows[k] EXCEPT !.status = status, !.last_contacted = last_contacted,
                             !.contact_attempts = contact_attempts]
        ELSE rows[k] ]

\* a mutant: the cooldown test is left out
ShouldSkipCooldownOnly(account, t) ==
    /\ account.last_contacted # NEVER
    /\ account.last_contacted > t - COOLDOWN_DAYS * DAY

ShouldSkipWithoutCooldown(account, t) ==
    \/ account.contact_attempts >= 3
    \/ account.status \in { "blocked", "not_interested" }

_should_skip_account(account, t) ==
    \/ /\ account.last_contacted # NEVER
       /\ account.last_contacted > t - COOLDOWN_DAYS * DAY
    \/ account.contact_attempts >= 3
    \/ account.status \in { "blocked", "not_interested" }

Tasks == { "task1", "task2" }

NoResults == [ success |-> 0, failed |-> 0, skipped |-> 0 ]

\* results[...] += 1 for the outcome of one iteration: a skip counts in
\* skipped, a successful send in success, everything else in failed
AddResultDroppingFailedSend(results, outcome) ==
    IF outcome = "skipped" THEN [results EXCEPT !.skipped = @ + 1]
    ELSE IF outcome = "sent" THEN [results EXCEPT !.success = @ + 1]
    ELSE IF outcome = "fetch_failed" THEN [results EXCEPT !.failed = @ + 1]
    ELSE results

AddResult(results, outcome) ==
    IF outcome = "skipped" THEN [results EXCEPT !.skipped = @ + 1]
    ELSE IF outcome = "sent" THEN [results EXCEPT !.success = @ + 1]
    ELSE [results EXCEPT !.failed = @ + 1]

\* runs: how many batches the coroutine has started (history, bounded);
\* denied: the position in the batch at which send_dm was first refused a
\* permit, 0 when it has not been (history)
MaxBatches == 1

\* batch_size: the argument of the call; matching: how many rows
\* get_target_accounts returned to it (history)
IdleTask ==
    [ pc |-> "idle", campaign_id |-> 0, accounts |-> << >>, i |-> 0,
      results |-> NoResults, wake |-> 0, runs |-> 0, denied |-> 0,
      batch_size |-> 0, matching |-> 0 ]

\* the event loop runs one coroutine at a time: another one is resumed or
\* started only when none is between two of its sleeps
NoneRunning == \A t \in DOMAIN tasks : tasks[t].pc # "loop"

\* execute_outreach_batch(campaign_id, batch_size) up to the loop
StartBatch(t, campaign_id, batch_size) ==
    /\ NoneRunning
    /\ tasks[t].pc = "idle"
    /\ now < EndTime
    /\ tasks[t].runs < MaxBatches
    /\ campaign_id \in DOMAIN campaigns
    /\ LET campaign == campaigns[campaign_id]
           pending == get_target_accounts(target_accounts, campaign.target_industry,
                                          campaign.target_location, "pending")
           picked == Take(pending, batch_size)
       IN  tasks' = [tasks EXCEPT ![t] =
                        [ pc |-> "loop", campaign_id |-> campaign_id, accounts |-> picked,
                          i |-> 1, results |-> NoResults, wake |-> 0,
                          runs |-> tasks[t].runs + 1, denied |-> 0,
                          batch_size |-> batch_size, matching |-> Len(pending) ]]
    /\ ev' = [ op |-> "start_batch", task |-> t ]
    /\ UNCHANGED << now, rate_limit_tracker, target_accounts, campaigns, conversations,
                    messages, sent, fragments, threads, enable_auto_response, agent >>

\* execute_outreach_batch on a campaign id that does not exist
BatchNoCampaign(t, campaign_id) ==
    /\ NoneRunning
    /\ tasks[t].pc = "idle"
    /\ campaign_id \notin DOMAIN campaigns
    /\ ev' = [ op |-> "execute_outreach_batch", task |-> t,
               campaign_id |-> campaign_id, results |-> NoResults,
               sent_before |-> Len(sent) ]
    /\ UNCHANGED << now, rate_limit_tracker, target_accounts, campaigns, conversations,
                    messages, tasks, sent, fragments, threads, enable_auto_response, agent >>

\* one iteration of the loop, for the account at position i of the batch.
\* fetch_ok: get_account_info returns a profile; delivers: direct_send
\* returns; delay: what random.randint gives after a send that failed.
Iterate(t, fetch_ok, delivers, delay) ==
    /\ tasks[t].pc = "loop"
    /\ tasks[t].i <= Len(tasks[t].accounts)
    /\ Len(sent) < MaxSent
    /\ LET task == tasks[t]
           account == target_accounts[task.accounts[task.i]]
           tracker == rate_limit_tracker["outreach_manager"]
           quota == _check_rate_limit(tracker, "dms", now).ok
           r == send_dm(tracker, now, delivers)
           outcome == IF _should_skip_account(account, now) THEN "skipped"
                      ELSE IF ~fetch_ok THEN "fetch_failed"
                      ELSE IF r.result THEN "sent"
                      ELSE IF ~quota THEN "quota_denied"
                      ELSE "send_failed"
       IN  /\ ev' = [ op |-> "iterate", task |-> t, outcome |-> outcome,
                      username |-> account.username, at |-> now, before |-> account,
                      results |-> task.results, position |-> task.i,
                      quota |-> quota, fetch_ok |-> fetch_ok, delivers |-> delivers ]
           /\ IF outcome = "skipped"
              THEN /\ tasks' = [tasks EXCEPT ![t].results = AddResult(@, outcome),
                                             ![t].i = @ + 1]
                   /\ UNCHANGED << rate_limit_tracker, target_accounts, sent >>
              ELSE IF outcome = "fetch_failed"
              THEN /\ tasks' = [tasks EXCEPT ![t].results = AddResult(@, outcome),
                                             ![t].i = @ + 1]
                   /\ UNCHANGED << rate_limit_tracker, target_accounts, sent >>
              ELSE IF outcome = "sent"
              THEN /\ rate_limit_tracker' =
                          [rate_limit_tracker EXCEPT !["outreach_manager"] = r.tracker]
                   /\ target_accounts' =
                          update_target_account(target_accounts, account.username,
                                                "contacted", now,
                                                account.contact_attempts + 1)
                   /\ sent' = Append(sent, [ client |-> "outreach_manager",
                                             to |-> account.username, at |-> now,
                                             window |-> r.tracker.last_dm_reset,
                                             kind |-> "outreach" ])
                   /\ tasks' = [tasks EXCEPT ![t].results = AddResult(@, outcome),
                                             ![t].i = @ + 1,
                                             ![t].pc = "sleep_min",
                                             ![t].wake = now + MIN_DELAY_BETWEEN_MESSAGES]
              ELSE /\ rate_limit_tracker' =
                          [rate_limit_tracker EXCEPT !["outreach_manager"] = r.tracker]
                   /\ tasks' = [tasks EXCEPT ![t].results = AddResult(@, outcome),
                                             ![t].i = @ + 1,
                                             ![t].pc = "sleep_rand",
                                             ![t].wake = now + delay,
                                             ![t].denied =
                                                 IF outcome = "quota_denied" /\ @ = 0
                                                 THEN task.i ELSE @]
                   /\ UNCHANGED << target_accounts, sent >>
    /\ UNCHANGED << now, campaigns, conversations, messages, fragments, threads,
                    enable_auto_response, agent >>

WakeWithoutRandomDelay(t, delay) ==
    /\ NoneRunning
    /\ tasks[t].pc = "sleep_min"
    /\ now >= tasks[t].wake
    /\ tasks' = [tasks EXCEPT ![t].pc = "sleep_rand", ![t].wake = now]
    /\ ev' = [ op |-> "wake", task |-> t ]
    /\ UNCHANGED << now, rate_limit_tracker, target_accounts, campaigns, conversations,
                    messages, sent, fragments, threads, enable_auto_response, agent >>

\* asyncio.sleep(settings.min_delay_between_messages) is over; the coroutine
\* goes on to asyncio.sleep(random.randint(30, 120))
WakeFromMinDelay(t, delay) ==
    /\ NoneRunning
    /\ tasks[t].pc = "sleep_min"
    /\ now >= tasks[t].wake
    /\ tasks' = [tasks EXCEPT ![t].pc = "sleep_rand", ![t].wake = now + delay]
    /\ ev' = [ op |-> "wake", task |-> t ]
    /\ UNCHANGED << now, rate_limit_tracker, target_accounts, campaigns, conversations,
                    messages, sent, fragments, threads, enable_auto_response, agent >>

\* asyncio.sleep(random.randint(30, 120)) is over: next iteration
WakeFromRandomDelay(t) ==
    /\ NoneRunning
    /\ tasks[t].pc = "sleep_rand"
    /\ now >= tasks[t].wake
    /\ tasks' = [tasks EXCEPT ![t].pc = "loop"]
    /\ ev' = [ op |-> "wake", task |-> t ]
    /\ UNCHANGED << now, rate_limit_tracker, target_accounts, campaigns, conversations,
                    messages, sent, fragments, threads, enable_auto_response, agent >>

\* after the loop: the campaign statistics, and the results returned
FinishBatch(t) ==
    /\ tasks[t].pc = "loop"
    /\ tasks[t].i > Len(tasks[t].accounts)
    /\ campaigns' = [campaigns EXCEPT ![tasks[t].campaign_id].responses_received =
                                          @ + tasks[t].results.success]
    /\ ev' = [ op |-> "execute_outreach_batch", task |-> t,
               campaign_id |-> tasks[t].campaign_id, results |-> tasks[t].results,
               examined |-> tasks[t].accounts, batch_size |-> tasks[t].batch_size,
               matching |-> tasks[t].matching ]
    /\ tasks' = [tasks EXCEPT ![t] = [IdleTask EXCEPT !.runs = tasks[t].runs]]
    /\ UNCHANGED << now, rate_limit_tracker, target_accounts, conversations, messages,
                    sent, fragments, threads, enable_auto_response, agent >>

Sleeping == { t \in Tasks : tasks[t].pc \in { "sleep_min", "sleep_rand" } }

\* time passes while every coroutine is asleep or idle: up to the earliest
\* wake-up when one sleeps, else by the idle step
PassTime ==
    /\ NoneRunning
    /\ IF Sleeping # { }
       THEN /\ \A t \in Sleeping : tasks[t].wake > now
            /\ \E t \in Sleeping :
                  /\ \A u \in Sleeping : tasks[t].wake <= tasks[u].wake
                  /\ now' = tasks[t].wake
       ELSE /\ now + HOUR + 1 <= EndTime
            /\ now' = now + HOUR + 1
    /\ UNCHANGED << rate_limit_tracker, target_accounts, campaigns, conversations,
                    messages, tasks, sent, fragments, threads, enable_auto_response, agent, ev >>

-----------------------------------------------------------------------------
(* Specification SpecBatch: two coroutines run execute_outreach_batch for  *)
(* two campaigns with the same industry and location, on a table that an   *)
(* earlier run of the process has left (the tables outlive the process).   *)

SeedAccount(u, status, last_contacted, contact_attempts) ==
    [ username |-> u, follower_count |-> 1500, category |-> IndustryReal,
      location |-> LocationDubai, status |-> status,
      last_contacted |-> last_contacted, contact_attempts |-> contact_attempts ]

\* the first row as an earlier run may have left it: never contacted;
\* contacted six days ago; contacted eight days ago; contacted three times
FirstRows ==
    { SeedAccount("u1", "pending", NEVER, 0),
      SeedAccount("u1", "pending", StartTime - 6 * DAY, 1),
      SeedAccount("u1", "pending", StartTime - 8 * DAY, 1),
      SeedAccount("u1", "pending", StartTime - 8 * DAY, 3) }

InitBatch ==
    /\ InitClock /\ InitClients /\ InitHistory
    /\ \E first \in FirstRows :
          target_accounts = << first,
                               SeedAccount("u2", "pending", NEVER, 0),
                               SeedAccount("u3", "pending", NEVER, 0),
                               SeedAccount("u4", "pending", NEVER, 0) >>
    /\ campaigns = << NewCampaign(IndustryReal, LocationDubai),
                      NewCampaign(IndustryReal, LocationDubai) >>
    /\ conversations = << >>
    /\ messages = << >>
    /\ tasks = [t \in Tasks |-> IdleTask]
    /\ fragments = << >>
    /\ threads = << >>
    /\ enable_auto_response = TRUE

NextBatch ==
    \/ \E campaign_id \in 1..3, batch_size \in { 2, BATCH_SIZE } :
          StartBatch("task1", campaign_id, batch_size)
    \/ \E campaign_id \in 1..3 : BatchNoCampaign("task1", campaign_id)
    \/ \E fetch_ok \in BOOLEAN, delivers \in BOOLEAN, delay \in RandomDelays :
          Iterate("task1", fetch_ok, delivers, delay)
    \/ \E delay \in RandomDelays : WakeFromMinDelay("task1", delay)
    \/ WakeFromRandomDelay("task1")
    \/ FinishBatch("task1")
    \/ PassTime

SpecBatch == InitBatch /\ [][NextBatch]_vars

-----------------------------------------------------------------------------
(* Specification SpecPacing: one coroutine runs execute_outreach_batch over *)
(* two fresh accounts and one that has had its three attempts, the random   *)
(* delay taking either end of its range.                                    *)

InitPacing ==
    /\ InitClock /\ InitClients /\ InitHistory
    /\ target_accounts = << SeedAccount("u1", "pending", NEVER, 0),
                            SeedAccount("u2", "pending", NEVER, 0),
                            SeedAccount("u3", "pending", StartTime - 8 * DAY, 3) >>
    /\ campaigns = << NewCampaign(IndustryReal, LocationDubai) >>
    /\ conversations = << >>
    /\ messages = << >>
    /\ tasks = [t \in Tasks |-> IdleTask]
    /\ fragments = << >>
    /\ threads = << >>
    /\ enable_auto_response = TRUE

NextPacing ==
    \/ StartBatch("task1", 1, BATCH_SIZE)
    \/ \E fetch_ok \in BOOLEAN, delivers \in BOOLEAN, delay \in RandomDelayEnds :
          Iterate("task1", fetch_ok, delivers, delay)
    \/ \E delay \in RandomDelayEnds : WakeFromMinDelay("task1", delay)
    \/ WakeFromRandomDelay("task1")
    \/ FinishBatch("task1")
    \/ PassTime

SpecPacing == InitPacing /\ [][NextPacing]_vars

-----------------------------------------------------------------------------
(* Specification SpecRepeat: execute_outreach_batch is called again and    *)
(* again for one campaign, with batch_size 2, on a table of three pending  *)
(* accounts that match it, the last two never contacted.  Every step that  *)
(* is enabled for good is taken in the end.                                *)

\* execute_outreach_batch has returned and is called again, as by the loop
\* `for campaign in campaigns` of _run_outreach_campaigns: the count of the
\* batches starts anew
CallAgain(t) ==
    /\ NoneRunning
    /\ tasks[t].pc = "idle"
    /\ tasks[t].runs = MaxBatches
    /\ tasks' = [tasks EXCEPT ![t].runs = 0]
    /\ ev' = [ op |-> "call_again", task |-> t ]
    /\ UNCHANGED << now, rate_limit_tracker, target_accounts, campaigns, conversations,
                    messages, sent, fragments, threads, enable_auto_response, agent >>

InitRepeat ==
    /\ InitClock /\ InitClients /\ InitHistory
    /\ \E first \in FirstRows :
          target_accounts = << first,
                               SeedAccount("u2", "pending", NEVER, 0),
                               SeedAccount("u3", "pending", NEVER, 0) >>
    /\ campaigns = << NewCampaign(IndustryReal, LocationDubai) >>
    /\ conversations = << >>
    /\ messages = << >>
    /\ tasks = [t \in Tasks |-> IdleTask]
    /\ fragments = << >>
    /\ threads = << >>
    /\ enable_auto_response = TRUE

\* the profile fetch may fail; a send that the client attempts goes through
IterateRepeat ==
    \E fetch_ok \in BOOLEAN, delay \in RandomDelays :
       Iterate("task1", fetch_ok, TRUE, delay)

WakeRepeat == \E delay \in RandomDelays : WakeFromMinDelay("task1", delay)

NextRepeat ==
    \/ StartBatch("task1", 1, 2)
    \/ IterateRepeat
    \/ WakeRepeat
    \/ WakeFromRandomDelay("task1")
    \/ FinishBatch("task1")
    \/ CallAgain("task1")
    \/ PassTime

SpecRepeat ==
    /\ InitRepeat /\ [][NextRepeat]_vars
    /\ WF_vars(StartBatch("task1", 1, 2))
    /\ WF_vars(IterateRepeat)
    /\ WF_vars(WakeRepeat)
    /\ WF_vars(WakeFromRandomDelay("task1"))
    /\ WF_vars(FinishBatch("task1"))
    /\ WF_vars(CallAgain("task1"))
    /\ WF_vars(PassTime)

-----------------------------------------------------------------------------
(* Specification SpecOverlap: two coroutines run execute_outreach_batch at *)
(* the same time, for two campaigns with the same industry and location,   *)
(* through the one OutreachManager client and the one table.               *)

InitOverlap ==
    /\ InitClock /\ InitClients /\ InitHistory
    /\ target_accounts = << SeedAccount("u1", "pending", NEVER, 0),
                            SeedAccount("u2", "pending", NEVER, 0) >>
    /\ campaigns = << NewCampaign(IndustryReal, LocationDubai),
                      NewCampaign(IndustryReal, LocationDubai) >>
    /\ conversations = << >>
    /\ messages = << >>
    /\ tasks = [t \in Tasks |-> IdleTask]
    /\ fragments = << >>
    /\ threads = << >>
    /\ enable_auto_response = TRUE

NextOverlap ==
    \/ \E t \in Tasks, campaign_id \in 1..2 : StartBatch(t, campaign_id, BATCH_SIZE)
    \/ \E t \in Tasks, fetch_ok \in BOOLEAN, delivers \in BOOLEAN, delay \in RandomDelays :
          Iterate(t, fetch_ok, delivers, delay)
    \/ \E t \in Tasks, delay \in RandomDelays : WakeFromMinDelay(t, delay)
    \/ \E t \in Tasks : WakeFromRandomDelay(t)
    \/ \E t \in Tasks : FinishBatch(t)
    \/ PassTime

SpecOverlap == InitOverlap /\ [][NextOverlap]_vars

-----------------------------------------------------------------------------
(* ConversationManager.process_incoming_dm and the DatabaseManager calls   *)
(* it makes.  A reply is named by the method that builds it; the text of   *)
(* a model-generated reply is opaque, and may be empty.                    *)

TextPricingShoot == <<"W", "h", "a", "t", "'", "s", " ", "t", "h", "e", " ", "p", "r", "i", "c", "i", "n", "g", " ", "f", "o", "r", " ", "a", " ", "p", "r", "o", "p", "e", "r", "t", "y", " ", "s", "h", "o", "o", "t", "?">>

DmHello == <<"h", "e", "l", "l", "o">>
DmOther == <<"a", "s", "d", "f", "g", "h">>

Texts == { TextPricingShoot, DmHello, DmOther }

IsOutreachResponseOf == [ text \in Texts |-> _is_outreach_response(text) ]
OutreachStageOf == [ text \in Texts |-> _determine_outreach_stage(text) ]

\* dm_data['user_id']: the sender's id from the inbound poll; the outreach
\* response loop passes the empty string
UserIds == { "id1", "" }
Urgencies == { "low", "high" }
AiReplies == { "generate_dm_response", "" }

MaxMessages == 4

\* a mutant: no row is found
GetConversationNone(rows, user_id) == 0

\* get_conversation(instagram_user_id): the position of the first row, 0 for None
get_conversation(rows, user_id) ==
    IF \E k \in DOMAIN rows : rows[k].instagram_user_id = user_id
    THEN CHOOSE k \in DOMAIN rows :
            /\ rows[k].instagram_user_id = user_id
            /\ \A j \in DOMAIN rows : rows[j].instagram_user_id = user_id => k <= j
    ELSE 0

\* the keys process_incoming_dm reads with a default, at their defaults
EmptyContext ==
    [ last_message |-> NULL, urgency |-> NULL, message_count |-> 0,
      is_outreach_response |-> FALSE, outreach_stage |-> NULL, last_response |-> NULL ]

create_conversation(rows, user_id, context) ==
    Append(rows, [ instagram_user_id |-> user_id, conversation_context |-> context ])

update_conversation_context(rows, conversation_id, context) ==
    [ k \in DOMAIN rows |->
        IF k = conversation_id THEN [rows[k] EXCEPT !.conversation_context = context]
        ELSE rows[k] ]

add_message(rows, conversation_id, content, is_from_agent) ==
    Append(rows, [ conversation_id |-> conversation_id, content |-> content,
                   is_from_agent |-> is_from_agent ])

_handle_initial_interest == "_handle_initial_interest"
_handle_pricing_inquiry == "_handle_pricing_inquiry"
_handle_portfolio_request == "_handle_portfolio_request"
_handle_meeting_request == "_handle_meeting_request"

\* a mutant: the stage is not consulted
OutreachResponseIgnoringStage(context, ai_reply) == ai_reply

_generate_outreach_response(context, ai_reply) ==
    LET stage == IF context.outreach_stage = NULL THEN "initial"
                 ELSE context.outreach_stage
    IN  IF stage = "initial_interest" THEN _handle_initial_interest
        ELSE IF stage = "pricing_inquiry" THEN _handle_pricing_inquiry
        ELSE IF stage = "portfolio_request" THEN _handle_portfolio_request
        ELSE IF stage = "meeting_request" THEN _handle_meeting_request
        ELSE ai_reply

\* a mutant: the stage routing comes before the urgency test
ContextualResponseStageFirst(context, urgency, auto_response, ai_reply) ==
    IF ~auto_response THEN ""
    ELSE IF context.is_outreach_response
         THEN _generate_outreach_response(context, ai_reply)
         ELSE ai_reply

\* None is the empty reply here: the caller tests the result for truth only
_generate_contextual_response(context, urgency, auto_response, ai_reply) ==
    IF ~auto_response THEN ""
    ELSE IF urgency = "high" THEN ai_reply
    ELSE IF context.is_outreach_response
         THEN _generate_outreach_response(context, ai_reply)
         ELSE ai_reply

\* a mutant: a stage, once stored, is kept
ContextUpdateKeepingStage(old, content, urgency) ==
    LET updated == [old EXCEPT !.last_message = content, !.urgency = urgency,
                               !.message_count = @ + 1]
    IN  IF IsOutreachResponseOf[content]
        THEN [updated EXCEPT !.is_outreach_response = TRUE,
                             !.outreach_stage = IF old.outreach_stage = NULL
                                                THEN OutreachStageOf[content]
                                                ELSE old.outreach_stage]
        ELSE updated

\* a mutant: a message that is no outreach response clears the mark
ContextUpdateClearingMark(old, content, urgency) ==
    LET updated == [old EXCEPT !.last_message = content, !.urgency = urgency,
                               !.message_count = @ + 1]
    IN  IF IsOutreachResponseOf[content]
        THEN [updated EXCEPT !.is_outreach_response = TRUE,
                             !.outreach_stage = OutreachStageOf[content]]
        ELSE [updated EXCEPT !.is_outreach_response = FALSE]

\* context.update({...}) and the outreach test that follows it
context_update(old, content, urgency) ==
    LET updated == [old EXCEPT !.last_message = content, !.urgency = urgency,
                               !.message_count = @ + 1]
    IN  IF IsOutreachResponseOf[content]
        THEN [updated EXCEPT !.is_outreach_response = TRUE,
                             !.outreach_stage = OutreachStageOf[content]]
        ELSE updated

\* thread.users[0].pk and thread.users[0].username, which get_unread_dms puts
\* into a message as user_id and username: the user ids of the platform's
\* users
PkOfUsername ==
    [ u \in { "u1", "u2", "u9" } |->
        IF u = "u1" THEN "id1" ELSE IF u = "u2" THEN "id2" ELSE "id9" ]

UsernameOfPk ==
    [ id \in { "id1", "id2", "id9" } |->
        CHOOSE u \in DOMAIN PkOfUsername : PkOfUsername[u] = id ]

\* process_incoming_dm(dm_data).  urgency: what analyze_message_sentiment
\* reports; ai_reply: what generate_dm_response returns; delivers: direct_send
\* returns.
process_incoming_dm(user_id, username, content, urgency, ai_reply, delivers) ==
    /\ Len(messages) + 2 <= MaxMessages
    /\ LET found == get_conversation(conversations, user_id)
           created == IF found = 0
                      THEN create_conversation(conversations, user_id, EmptyContext)
                      ELSE conversations
           id == IF found = 0 THEN Len(created) ELSE found
           inbound == add_message(messages, id, content, FALSE)
           old == created[id].conversation_context
           context == context_update(old, content, urgency)
           response == _generate_contextual_response(context, urgency,
                                                     enable_auto_response, ai_reply)
           \* whether generate_dm_response was called for this message
           asked == _generate_contextual_response(context, urgency,
                                                  enable_auto_response, "asked") = "asked"
           tracker == rate_limit_tracker["conversation_manager"]
           quota == _check_rate_limit(tracker, "dms", now).ok
           r == send_dm(tracker, now, delivers)
           success == response # "" /\ r.result
           final == IF success THEN [context EXCEPT !.last_response = response]
                    ELSE context
       IN  /\ conversations' = update_conversation_context(created, id, final)
           /\ messages' = IF success THEN add_message(inbound, id, response, TRUE)
                          ELSE inbound
           /\ rate_limit_tracker' =
                  IF response # ""
                  THEN [rate_limit_tracker EXCEPT !["conversation_manager"] = r.tracker]
                  ELSE rate_limit_tracker
           /\ sent' = IF success
                      THEN Append(sent, [ client |-> "conversation_manager",
                                          to |-> user_id, at |-> now,
                                          window |-> r.tracker.last_dm_reset,
                                          kind |-> "reply" ])
                      ELSE sent
           /\ ev' = [ op |-> "process_incoming_dm", user_id |-> user_id,
                      username |-> username, content |-> content, urgency |-> urgency, delivers |-> delivers,
                      quota |-> quota, existed |-> found # 0, conversation_id |-> id,
                      messages_before |-> Len(messages),
                      ai_reply |-> IF asked THEN ai_reply ELSE NULL,
                      response |-> response,
                      returned |-> IF success THEN response ELSE NULL ]

\* a call of process_incoming_dm on its own, for a message of u1
ProcessIncomingDm(user_id, content, urgency, ai_reply, delivers) ==
    /\ process_incoming_dm(user_id, "u1", content, urgency, ai_reply, delivers)
    /\ UNCHANGED << now, target_accounts, campaigns, tasks, fragments, threads,
                    enable_auto_response, agent >>

-----------------------------------------------------------------------------
(* Specification SpecConv: inbound messages arrive one after another; the  *)
(* auto-response setting is fixed when the process starts.                 *)

InitConv ==
    /\ InitClock /\ InitClients /\ InitEmptyTables /\ InitHistory
    /\ tasks = [t \in Tasks |-> IdleTask]
    /\ fragments = << >>
    /\ threads = << >>
    /\ enable_auto_response \in BOOLEAN

NextConv ==
    \/ \E user_id \in UserIds, content \in Texts, urgency \in Urgencies,
          ai_reply \in AiReplies, delivers \in BOOLEAN :
          ProcessIncomingDm(user_id, content, urgency, ai_reply, delivers)
    \/ Tick(HOUR + 1)

SpecConv == InitConv /\ [][NextConv]_vars

-----------------------------------------------------------------------------
(* OutreachManager.monitor_responses: the unread messages are polled, and  *)
(* the sender of every one that reads like an answer to outreach is marked *)
(* responded.                                                              *)

\* OutreachManager._is_outreach_response.response_indicators
outreach_response_indicators ==
    << <<"t", "h", "a", "n", "k", " ", "y", "o", "u">>,
       <<"t", "h", "a", "n", "k", "s">>,
       <<"i", "n", "t", "e", "r", "e", "s", "t", "e", "d">>,
       <<"t", "e", "l", "l", " ", "m", "e", " ", "m", "o", "r", "e">>,
       <<"p", "r", "i", "c", "i", "n", "g">>,
       <<"c", "o", "s", "t">>,
       <<"s", "e", "r", "v", "i", "c", "e", "s">>,
       <<"p", "o", "r", "t", "f", "o", "l", "i", "o">>,
       <<"w", "e", "b", "s", "i", "t", "e">>,
       <<"c", "o", "n", "t", "a", "c", "t">> >>

\* OutreachManager._is_outreach_response(dm), by the content of the message
IsResponseToOutreach == [ text \in Texts |-> AnyIn(outreach_response_indicators, Lower(text)) ]

\* update_target_account(username, status=...)
update_status(rows, username, status) ==
    [ k \in DOMAIN rows |->
        IF k = IndexOfUsername(rows, username)
        THEN [rows[k] EXCEPT !.status = status]
        ELSE rows[k] ]

\* the unread messages a poll may return: the latest message of a thread and
\* the username of its sender ("u9" has no row in the table)
DmPool ==
    { [ username |-> "u1", content |-> DmHello ],
      [ username |-> "u2", content |-> TextPricingShoot ],
      [ username |-> "u9", content |-> TextPricingShoot ] }

MaxUnread == 2

UnreadLists == { dms \in SUBSET DmPool : Cardinality(dms) <= MaxUnread }

RECURSIVE MarkResponded(_, _)
MarkResponded(rows, dms) ==
    IF dms = { } THEN rows
    ELSE LET dm == CHOOSE x \in dms : TRUE
         IN  MarkResponded(IF IsResponseToOutreach[dm.content]
                           THEN update_status(rows, dm.username, "responded")
                           ELSE rows,
                           dms \ { dm })

MonitorResponses(unread_dms) ==
    /\ NoneRunning
    /\ target_accounts' = MarkResponded(target_accounts, unread_dms)
    /\ ev' = [ op |-> "monitor_responses",
               responses |-> { dm \in unread_dms : IsResponseToOutreach[dm.content] } ]
    /\ UNCHANGED << now, rate_limit_tracker, campaigns, conversations, messages, tasks,
                    sent, fragments, threads, enable_auto_response, agent >>

-----------------------------------------------------------------------------
(* Specification SpecStatus: one coroutine runs execute_outreach_batch     *)
(* while the response monitor polls, on a table of newly discovered        *)
(* accounts.                                                               *)

InitStatus ==
    /\ InitClock /\ InitClients /\ InitHistory
    /\ target_accounts = << SeedAccount("u1", "pending", NEVER, 0),
                            SeedAccount("u2", "pending", NEVER, 0) >>
    /\ campaigns = << NewCampaign(IndustryReal, LocationDubai) >>
    /\ conversations = << >>
    /\ messages = << >>
    /\ tasks = [t \in Tasks |-> IdleTask]
    /\ fragments = << >>
    /\ threads = << >>
    /\ enable_auto_response = TRUE

NextStatus ==
    \/ StartBatch("task1", 1, BATCH_SIZE)
    \/ \E fetch_ok \in BOOLEAN, delivers \in BOOLEAN, delay \in RandomDelays :
          Iterate("task1", fetch_ok, delivers, delay)
    \/ \E delay \in RandomDelays : WakeFromMinDelay("task1", delay)
    \/ WakeFromRandomDelay("task1")
    \/ FinishBatch("task1")
    \/ PassTime
    \/ \E unread_dms \in UnreadLists : MonitorResponses(unread_dms)

SpecStatus == InitStatus /\ [][NextStatus]_vars

-----------------------------------------------------------------------------
(* InstagramAIAgent: start, the loops it creates, stop.  A cycle of a poll *)
(* loop is one step: between two of its sleeps it does not yield.  The     *)
(* polls return at most one unread message.                                *)

Loops == { "_monitor_dms", "_monitor_outreach_responses", "_periodic_cleanup" }

\* a mutant: the loops are created and is_running set before the login is tested
StartLoopsBeforeLogin(login_ok, enable_auto_outreach) ==
    /\ agent.start = "not called"
    /\ agent' = [agent EXCEPT
                   !.is_logged_in = login_ok,
                   !.is_running = TRUE,
                   !.tasks = Loops \cup (IF enable_auto_outreach
                                         THEN { "_run_outreach_campaigns" } ELSE { }),
                   !.start = IF login_ok THEN "running" ELSE "returned False"]
    /\ ev' = [ op |-> "start", login_ok |-> login_ok ]
    /\ UNCHANGED << now, rate_limit_tracker, target_accounts, campaigns, conversations,
                    messages, tasks, sent, fragments, threads, enable_auto_response >>

\* start(), called once by main(); login_ok: what instagram_client.login() returns
Start(login_ok, enable_auto_outreach) ==
    /\ agent.start = "not called"
    /\ agent' = IF ~login_ok
                THEN [agent EXCEPT !.start = "returned False"]
                ELSE [agent EXCEPT
                        !.is_logged_in = TRUE,
                        !.is_running = TRUE,
                        !.tasks = Loops \cup (IF enable_auto_outreach
                                              THEN { "_run_outreach_campaigns" } ELSE { }),
                        !.start = "running"]
    /\ ev' = [ op |-> "start", login_ok |-> login_ok ]
    /\ UNCHANGED << now, rate_limit_tracker, target_accounts, campaigns, conversations,
                    messages, tasks, sent, fragments, threads, enable_auto_response >>

\* `while self.is_running` in a loop that is resumed.  Once the signal handler
\* has created the task for stop(), that task is resumed before any timer that
\* ends later, so each loop runs at most the one cycle that was in progress
\* or already due
LoopRuns(loop) ==
    /\ agent.is_running
    /\ loop \in agent.tasks
    /\ agent.stop["signal"] = "not called" \/ loop \in agent.ahead

\* the loop has run its cycle and sleeps
AfterCycle(loop) == [agent EXCEPT !.ahead = @ \ { loop }]

\* `if not self.is_logged_in: await self.login()` at the head of send_dm and
\* get_unread_dms, on the client of manager c: the login succeeds, with the
\* credentials that start() logged in with.  `called` tells whether the
\* method was called
LoginOf(a, c, called) ==
    [a EXCEPT !.manager_logins[c] = @ \/ called]

\* a cycle of _monitor_dms in which get_unread_dms returns one message
MonitorDms(user_id, content, urgency, ai_reply, delivers) ==
    /\ LoopRuns("_monitor_dms")
    /\ process_incoming_dm(user_id, UsernameOfPk[user_id], content, urgency, ai_reply,
                           delivers)
    /\ agent' = LoginOf(AfterCycle("_monitor_dms"), "conversation_manager",
                        ev'.response # "")
    /\ UNCHANGED << now, target_accounts, campaigns, tasks, fragments, threads,
                    enable_auto_response >>

\* a cycle of _monitor_outreach_responses in which the poll of
\* monitor_responses returns one message; a response is handed to
\* process_incoming_dm with response.get('user_id', ''), which is ''
MonitorOutreachResponses(dm, urgency, ai_reply, delivers) ==
    /\ LoopRuns("_monitor_outreach_responses")
    /\ IF IsResponseToOutreach[dm.content]
       THEN /\ target_accounts' = MarkResponded(target_accounts, { dm })
            /\ process_incoming_dm("", dm.username, dm.content, urgency, ai_reply,
                                   delivers)
            /\ agent' = LoginOf(LoginOf(AfterCycle("_monitor_outreach_responses"),
                                        "outreach_manager", TRUE),
                                "conversation_manager", ev'.response # "")
       ELSE /\ ev' = [ op |-> "monitor_responses", responses |-> { } ]
            /\ agent' = LoginOf(AfterCycle("_monitor_outreach_responses"),
                                "outreach_manager", TRUE)
            /\ UNCHANGED << target_accounts, conversations, messages,
                            rate_limit_tracker, sent >>
    /\ UNCHANGED << now, campaigns, tasks, fragments, threads, enable_auto_response >>

\* a cycle of _periodic_cleanup: self.db_manager.Conversation raises
\* AttributeError, which the loop logs
PeriodicCleanup ==
    /\ LoopRuns("_periodic_cleanup")
    /\ ev' = [ op |-> "_periodic_cleanup", error |-> TRUE ]
    /\ agent' = AfterCycle("_periodic_cleanup")
    /\ UNCHANGED << now, rate_limit_tracker, target_accounts, campaigns, conversations,
                    messages, tasks, sent, fragments, threads, enable_auto_response >>

\* a cycle of _run_outreach_campaigns: self.db_manager.OutreachCampaign raises
\* AttributeError, which the loop logs
RunOutreachCampaigns ==
    /\ LoopRuns("_run_outreach_campaigns")
    /\ ev' = [ op |-> "_run_outreach_campaigns", error |-> TRUE ]
    /\ agent' = AfterCycle("_run_outreach_campaigns")
    /\ UNCHANGED << now, rate_limit_tracker, target_accounts, campaigns, conversations,
                    messages, tasks, sent, fragments, threads, enable_auto_response >>

\* _signal_handler: SIGINT or SIGTERM arrives while the loops run, and a task
\* is created for stop().  The handler runs between two bytecodes of whatever
\* the main thread executes: a cycle in progress goes on after it
SignalHandler ==
    /\ agent.start = "running"
    /\ agent.stop["signal"] = "not called"
    /\ agent' = [agent EXCEPT !.stop["signal"] = "created",
                              !.signal_sent = Len(sent),
                              !.ahead = agent.tasks]
    /\ ev' = [ op |-> "_signal_handler" ]
    /\ UNCHANGED << now, rate_limit_tracker, target_accounts, campaigns, conversations,
                    messages, tasks, sent, fragments, threads, enable_auto_response >>

\* stop() up to `await asyncio.gather(*self.tasks, return_exceptions=True)`:
\* is_running is cleared and every task is cancelled.  main() calls it in its
\* finally clause, when start() has returned False or has been ended by the
\* cancellation of a loop; the signal handler's task calls it when it first runs
Stop(caller) ==
    /\ agent.stop[caller] = (IF caller = "signal" THEN "created" ELSE "not called")
    /\ caller = "main" => agent.start \in { "returned False", "cancelled" }
    /\ agent' = [agent EXCEPT !.is_running = FALSE, !.stop[caller] = "waiting"]
    /\ ev' = [ op |-> "stop", caller |-> caller, returned |-> FALSE ]
    /\ UNCHANGED << now, rate_limit_tracker, target_accounts, campaigns, conversations,
                    messages, tasks, sent, fragments, threads, enable_auto_response >>

\* the loops that stop() has cancelled are resumed one after the other, each
\* with CancelledError at the sleep it is suspended in, which `except
\* Exception` does not catch: the tasks end in one pass of the event loop,
\* before any coroutine that waits for them is resumed, and the gather that
\* start() awaits raises
Cancelled ==
    /\ \E c \in StopCallers : agent.stop[c] = "waiting"
    /\ agent.tasks # { }
    /\ agent' = [agent EXCEPT !.tasks = { },
                              !.start = IF @ = "running" THEN "cancelled" ELSE @]
    /\ ev' = [ op |-> "cancelled", loops |-> agent.tasks ]
    /\ UNCHANGED << now, rate_limit_tracker, target_accounts, campaigns, conversations,
                    messages, tasks, sent, fragments, threads, enable_auto_response >>

\* a mutant: stop() does not wait for the tasks
StopReturnsWithoutWaiting(caller) ==
    /\ agent.stop[caller] = "waiting"
    /\ agent' = [agent EXCEPT !.stop[caller] = "returned", !.db_closed = TRUE,
                              !.is_logged_in = FALSE, !.stopped = TRUE]
    /\ ev' = [ op |-> "stop", caller |-> caller, returned |-> TRUE ]
    /\ UNCHANGED << now, rate_limit_tracker, target_accounts, campaigns, conversations,
                    messages, tasks, sent, fragments, threads, enable_auto_response >>

\* stop() from the gather on: when every task has ended, db_manager.close()
\* and instagram_client.logout()
StopReturns(caller) ==
    /\ agent.stop[caller] = "waiting"
    /\ agent.tasks = { }
    /\ agent' = [agent EXCEPT !.stop[caller] = "returned", !.db_closed = TRUE,
                              !.is_logged_in = FALSE, !.stopped = TRUE]
    /\ ev' = [ op |-> "stop", caller |-> caller, returned |-> TRUE ]
    /\ UNCHANGED << now, rate_limit_tracker, target_accounts, campaigns, conversations,
                    messages, tasks, sent, fragments, threads, enable_auto_response >>

-----------------------------------------------------------------------------
(* Specification SpecAgent: main() constructs the agent, starts it and     *)
(* stops it.                                                               *)

InitAgent ==
    /\ InitClock /\ InitClients /\ InitHistory
    /\ target_accounts = << SeedAccount("u1", "pending", NEVER, 0),
                            SeedAccount("u2", "pending", NEVER, 0) >>
    /\ campaigns = << NewCampaign(IndustryReal, LocationDubai) >>
    /\ conversations = << >>
    /\ messages = << >>
    /\ tasks = [t \in Tasks |-> IdleTask]
    /\ fragments = << >>
    /\ threads = << >>
    /\ enable_auto_response = TRUE

NextAgent ==
    \/ \E login_ok \in BOOLEAN, enable_auto_outreach \in BOOLEAN :
          Start(login_ok, enable_auto_outreach)
    \/ \E user_id \in UserIds \ { "" }, content \in Texts, urgency \in { "low" },
          ai_reply \in AiReplies, delivers \in BOOLEAN :
          MonitorDms(user_id, content, urgency, ai_reply, delivers)
    \/ \E dm \in DmPool, urgency \in { "low" }, ai_reply \in AiReplies,
          delivers \in BOOLEAN :
          MonitorOutreachResponses(dm, urgency, ai_reply, delivers)
    \/ PeriodicCleanup
    \/ RunOutreachCampaigns
    \/ SignalHandler
    \/ \E caller \in StopCallers : Stop(caller)
    \/ Cancelled
    \/ \E caller \in StopCallers : StopReturns(caller)

SpecAgent == InitAgent /\ [][NextAgent]_vars

-----------------------------------------------------------------------------
(* Specification SpecLoops: the loops and their sleeps, with polls that     *)
(* find no unread message.                                                  *)

\* a mutant: the sleep after an error is the normal one
SleepAfterIgnoringError(loop, error) ==
    IF loop = "_monitor_dms" THEN 30
    ELSE IF loop = "_monitor_outreach_responses" THEN 60
    ELSE IF loop = "_run_outreach_campaigns" THEN 3600
    ELSE 86400

\* the asyncio.sleep that ends a cycle: in the try block when the cycle got
\* through, in the except block when it raised
sleep_after(loop, error) ==
    IF loop = "_monitor_dms" THEN (IF error THEN 60 ELSE 30)
    ELSE IF loop = "_monitor_outreach_responses" THEN (IF error THEN 300 ELSE 60)
    ELSE IF loop = "_run_outreach_campaigns" THEN (IF error THEN 1800 ELSE 3600)
    ELSE (IF error THEN 3600 ELSE 86400)

\* one cycle of a loop whose sleep has ended.  error: an exception reaches the
\* loop's except clause; in _run_outreach_campaigns and _periodic_cleanup the
\* first statement raises AttributeError, so every cycle of them is one
Cycle(loop, error) ==
    /\ LoopRuns(loop)
    /\ now >= agent.wake[loop]
    /\ loop \in { "_run_outreach_campaigns", "_periodic_cleanup" } => error
    /\ agent' = [AfterCycle(loop) EXCEPT
                   !.wake[loop] = now + sleep_after(loop, error),
                   !.last[loop] = [ at |-> now, error |-> error ]]
    /\ ev' = [ op |-> "cycle", loop |-> loop, error |-> error, at |-> now,
               last |-> agent.last[loop] ]
    /\ UNCHANGED << now, rate_limit_tracker, target_accounts, campaigns, conversations,
                    messages, tasks, sent, fragments, threads, enable_auto_response >>

\* every loop sleeps: time passes up to the earliest end of a sleep
SleepLoops ==
    /\ agent.is_running
    /\ agent.tasks # { }
    /\ \A l \in agent.tasks : agent.wake[l] > now
    /\ \E l \in agent.tasks :
          /\ \A k \in agent.tasks : agent.wake[l] <= agent.wake[k]
          /\ agent.wake[l] <= EndTime
          /\ now' = agent.wake[l]
    /\ UNCHANGED << rate_limit_tracker, target_accounts, campaigns, conversations,
                    messages, tasks, sent, fragments, threads, enable_auto_response, agent, ev >>

NextLoops ==
    \/ \E login_ok \in BOOLEAN, enable_auto_outreach \in BOOLEAN :
          Start(login_ok, enable_auto_outreach)
    \/ \E loop \in AllLoops, error \in BOOLEAN : Cycle(loop, error)
    \/ SleepLoops

SpecLoops == InitAgent /\ [][NextLoops]_vars

-----------------------------------------------------------------------------
(* Specification SpecCleanup: the loops over a table that holds            *)
(* conversations of earlier days.                                          *)

\* a Conversation row with the columns the sweep reads: is_active (default
\* True) and last_message_time (default utcnow at the insert, written by no
\* other statement)
SeedConversation(user_id, last_message_time) ==
    [ instagram_user_id |-> user_id, conversation_context |-> EmptyContext,
      is_active |-> TRUE, last_message_time |-> last_message_time ]

\* one conversation created eight days ago and one created an hour ago
InitCleanup ==
    /\ InitClock /\ InitClients /\ InitHistory
    /\ target_accounts = << >>
    /\ campaigns = << >>
    /\ conversations = << SeedConversation("u1", StartTime - (COOLDOWN_DAYS + 1) * DAY),
                          SeedConversation("u2", StartTime - HOUR) >>
    /\ messages = << >>
    /\ tasks = [t \in Tasks |-> IdleTask]
    /\ fragments = << >>
    /\ threads = << >>
    /\ enable_auto_response = TRUE

SpecCleanup == InitCleanup /\ [][NextLoops]_vars

-----------------------------------------------------------------------------
(* Specification SpecFilter: one call of discover_target_accounts on every *)
(* short list of users, on an empty table and on a table that holds u1,    *)
(* with what the search gave and what the call returned.                   *)

MaxCandidates == 2

CandidateLists ==
    UNION { [1..n -> Users \cup SmallUsers] : n \in 1..MaxCandidates }

\* discover_target_accounts(campaign_id) on an existing campaign: the list
\* discovered_accounts and the list saved_accounts that it returns.  `raised`
\* tells that the platform raised an error for one of the keywords
DiscoverReturning(campaign_id, found, raised) ==
    /\ ev.op = "none"
    /\ campaign_id \in DOMAIN campaigns
    /\ LET campaign == campaigns[campaign_id]
           discovered == search_accounts_try(found, raised, campaign.target_location,
                                             DEFAULT_MAX_ACCOUNTS)
           rows == SaveDiscovered(target_accounts, discovered, campaign)
           saved == saved_accounts(target_accounts, discovered, campaign)
       IN  /\ Len(rows) <= MaxRows
           /\ target_accounts' = rows
           /\ campaigns' = [campaigns EXCEPT ![campaign_id].accounts_targeted = Len(saved)]
           /\ ev' = [ op |-> "discover_target_accounts", campaign_id |-> campaign_id,
                      known |-> { discovered[k].username : k \in DOMAIN discovered }
                                  \cap { target_accounts[k].username :
                                             k \in DOMAIN target_accounts },
                      saved |-> Len(rows) - Len(target_accounts),
                      discovered |-> discovered,
                      returned |-> saved,
                      found |-> found, raised |-> raised,
                      before |-> target_accounts ]
    /\ UNCHANGED << now, rate_limit_tracker, conversations, messages, tasks, sent,
                    fragments, threads, enable_auto_response, agent >>

InitFilter ==
    /\ InitClock /\ InitClients /\ InitHistory
    /\ target_accounts \in { << >>, << SeedAccount("u1", "pending", NEVER, 0) >> }
    /\ campaigns = << NewCampaign(IndustryReal, LocationDubai),
                      NewCampaign(IndustryConstruction, LocationDubai) >>
    /\ conversations = << >>
    /\ messages = << >>
    /\ tasks = << >>
    /\ fragments = << >>
    /\ threads = << >>
    /\ enable_auto_response = TRUE

NextFilter ==
    \E campaign_id \in DOMAIN campaigns, found \in CandidateLists, raised \in BOOLEAN :
        DiscoverReturning(campaign_id, found, raised)

SpecFilter == InitFilter /\ [][NextFilter]_vars

-----------------------------------------------------------------------------
(* Specification SpecPoll: the inbound-poll loop on a direct thread whose   *)
(* user writes, while the replies of the agent are delivered or not.       *)

MaxInbound == 2

\* the users who have a direct thread with the account, by their user id
ThreadUsers == { "id1" }

\* a thread: message_id numbers its latest message (0: no message yet),
\* is_from_me and content are of that message; polls counts the polls that
\* returned the latest inbound message, processed the calls of
\* process_incoming_dm for messages of the thread
NewThread ==
    [ message_id |-> 0, is_from_me |-> FALSE, content |-> NULL, polls |-> 0,
      processed |-> 0 ]

\* a mutant: a message is taken as answered once a poll has returned it
HasRespondedOncePolled(thread) == thread.polls > 0

_has_responded_to_message(thread) == FALSE

\* get_unread_dms: the threads whose latest message is not from the account
get_unread_dms(ths) ==
    { u \in DOMAIN ths :
        /\ ths[u].message_id > 0
        /\ ~ths[u].is_from_me
        /\ ~_has_responded_to_message(ths[u]) }

\* the user of a thread writes a message
Inbound(u, content) ==
    /\ threads[u].message_id < MaxInbound
    /\ threads' = [threads EXCEPT ![u] =
                      [ message_id |-> threads[u].message_id + 1, is_from_me |-> FALSE,
                        content |-> content, polls |-> 0,
                        processed |-> threads[u].processed ]]
    /\ ev' = [ op |-> "inbound", user_id |-> u ]
    /\ UNCHANGED << now, rate_limit_tracker, target_accounts, campaigns, conversations,
                    messages, tasks, sent, fragments, enable_auto_response, agent >>

\* a cycle of _monitor_dms: get_unread_dms, and process_incoming_dm for the
\* message it returns; a reply that is delivered becomes the latest message
\* of the thread
PollDms(urgency, ai_reply, delivers) ==
    /\ LoopRuns("_monitor_dms")
    /\ IF get_unread_dms(threads) = { }
       THEN /\ ev' = [ op |-> "get_unread_dms", unread_dms |-> { } ]
            /\ agent' = AfterCycle("_monitor_dms")
            /\ UNCHANGED << rate_limit_tracker, conversations, messages, sent, threads >>
       ELSE \E u \in get_unread_dms(threads) :
              /\ process_incoming_dm(u, UsernameOfPk[u], threads[u].content, urgency,
                                     ai_reply, delivers)
              /\ agent' = LoginOf(AfterCycle("_monitor_dms"), "conversation_manager",
                                  ev'.response # "")
              /\ threads' = [threads EXCEPT ![u] =
                     IF Len(sent') > Len(sent)
                     THEN [ @ EXCEPT !.message_id = @ + 1, !.is_from_me = TRUE,
                                     !.polls = @ + 1, !.processed = @ + 1 ]
                     ELSE [ @ EXCEPT !.polls = @ + 1, !.processed = @ + 1 ]]
    /\ UNCHANGED << now, target_accounts, campaigns, tasks, fragments,
                    enable_auto_response >>

InitPoll ==
    /\ InitClock /\ InitClients /\ InitEmptyTables /\ InitHistory
    /\ tasks = [t \in Tasks |-> IdleTask]
    /\ fragments = << >>
    /\ threads = [u \in ThreadUsers |-> NewThread]
    /\ enable_auto_response \in BOOLEAN

NextPoll ==
    \/ \E login_ok \in BOOLEAN, enable_auto_outreach \in BOOLEAN :
          Start(login_ok, enable_auto_outreach)
    \/ \E u \in ThreadUsers, content \in Texts : Inbound(u, content)
    \/ \E urgency \in Urgencies, ai_reply \in AiReplies, delivers \in BOOLEAN :
          PollDms(urgency, ai_reply, delivers)

SpecPoll == InitPoll /\ [][NextPoll]_vars

-----------------------------------------------------------------------------
(* Specification SpecKnown: one call of discover_target_accounts on a      *)
(* table that holds u1 as earlier batches and polls may have left it.      *)

InitKnown ==
    /\ InitClock /\ InitClients /\ InitHistory
    /\ target_accounts \in
          { << SeedAccount("u1", "pending", StartTime - DAY, 1) >>,
            << SeedAccount("u1", "contacted", StartTime - DAY, 1) >>,
            << SeedAccount("u1", "responded", StartTime - DAY, 1) >>,
            << SeedAccount("u1", "blocked", StartTime - DAY, 3) >> }
    /\ campaigns = << NewCampaign(IndustryReal, LocationDubai),
                      NewCampaign(IndustryConstruction, LocationDubai) >>
    /\ conversations = << >>
    /\ messages = << >>
    /\ tasks = << >>
    /\ fragments = << >>
    /\ threads = << >>
    /\ enable_auto_response = TRUE

SpecKnown == InitKnown /\ [][NextFilter]_vars

-----------------------------------------------------------------------------
(* Specification SpecWebhook: one POST /webhook request to the Instagram   *)
(* webhook application (src/ig_agent/app.py).                              *)

\* os.getenv("APP_SECRET", ""): not configured, or one of two secrets
AppSecrets == { "", "s1", "s2" }

\* the messaging events of a payload: a text message of a sender, and an
\* event without a text
MessagingEvents ==
    { [ sender_id |-> "id1", text |-> "hi" ], [ sender_id |-> "id1", text |-> NULL ] }

MaxEvents == 2

\* the request bodies: the events of entry[].messaging[], in order
Payloads == UNION { [1..n -> MessagingEvents] : n \in 0..MaxEvents }

\* hmac.new(key, msg=payload, digestmod=hashlib.sha256).hexdigest(): a text
\* that is different for every different pair of key and payload
hexdigest(key, payload) == ToString(<< key, payload >>)

\* the values of the X-Hub-Signature-256 header sent with a payload, each
\* as the list of its parts between "=" signs (signature.split("=")): the
\* header missing or empty, which req.headers.get(..., "") gives as "";
\* sha256=<digest> with either secret; the digest of another payload; no
\* "=" at all; one "=" too many; another prefix
Signatures(payload) ==
    { << "" >>,
      << "sha256", hexdigest("s1", payload) >>,
      << "sha256", hexdigest("s2", payload) >>,
      << "sha256", hexdigest("s1", << [ sender_id |-> "id9", text |-> "hi" ] >>) >>,
      << "sha256" >>,
      << "sha256", hexdigest("s1", payload), "" >>,
      << "sha1", hexdigest("s1", payload) >> }

\* verify_signature(payload, signature), APP_SECRET being the module's global
verify_signature(APP_SECRET, payload, signature) ==
    IF signature = << "" >> \/ APP_SECRET = "" THEN TRUE
    ELSE IF Len(signature) # 2 THEN FALSE
    ELSE hexdigest(APP_SECRET, payload) = signature[2]

\* the events that receive() answers: `if sender_id and text`
Answered(payload) ==
    SelectSeq(payload, LAMBDA evt : evt.sender_id # NULL /\ evt.text # NULL)

\* receive(req).  accepted: the Graph API takes the message that
\* send_ig_message posts; when it does not, raise_for_status raises at the
\* first reply and the request ends with status 500
Receive(APP_SECRET, payload, signature, accepted) ==
    /\ ev.op = "none"
    /\ LET verified == verify_signature(APP_SECRET, payload, signature)
           answered == IF verified THEN Answered(payload) ELSE << >>
           replies == IF accepted THEN answered ELSE << >>
       IN  /\ sent' = sent \o [ k \in DOMAIN replies |->
                                   [ client |-> "app", to |-> replies[k].sender_id,
                                     at |-> now, window |-> NEVER, kind |-> "reply" ] ]
           /\ ev' = [ op |-> "receive", APP_SECRET |-> APP_SECRET, payload |-> payload,
                      signature |-> signature,
                      status |-> IF ~verified THEN 403
                                 ELSE IF answered # << >> /\ ~accepted THEN 500
                                 ELSE 200 ]
    /\ UNCHANGED << now, rate_limit_tracker, target_accounts, campaigns, conversations,
                    messages, tasks, fragments, threads, enable_auto_response, agent >>

InitWebhook ==
    /\ InitClock /\ InitClients /\ InitEmptyTables /\ InitHistory
    /\ tasks = << >>
    /\ fragments = << >>
    /\ threads = << >>
    /\ enable_auto_response = TRUE

NextWebhook ==
    \E APP_SECRET \in AppSecrets, payload \in Payloads, accepted \in BOOLEAN :
       \E signature \in Signatures(payload) :
          Receive(APP_SECRET, payload, signature, accepted)

SpecWebhook == InitWebhook /\ [][NextWebhook]_vars

-----------------------------------------------------------------------------
(* Claims on the rate limiter (SpecQuota).                                 *)

SentBy(c, w) == { i \in DOMAIN sent : sent[i].client = c /\ sent[i].window = w }

\* C1: on each client, the DMs granted in one hourly window (the sends since
\* one value of last_dm_reset, all of them within an hour of it) are at most
\* max_dm_per_hour; and a check made more than an hour after last_dm_reset
\* sets last_dm_reset to the time of the check and restarts dms_sent from 0.
C1_HourlyCap ==
    /\ \A c \in Clients :
         /\ rate_limit_tracker[c].dms_sent <= max_dm_per_hour
         /\ Cardinality(SentBy(c, rate_limit_tracker[c].last_dm_reset))
                = rate_limit_tracker[c].dms_sent
    /\ \A i \in DOMAIN sent :
         /\ Cardinality(SentBy(sent[i].client, sent[i].window)) <= max_dm_per_hour
         /\ sent[i].window <= sent[i].at
         /\ sent[i].at - sent[i].window <= HOUR
    /\ (ev.op = "send_dm" /\ ev.at - ev.before.last_dm_reset > HOUR) =>
         /\ rate_limit_tracker[ev.client].last_dm_reset = ev.at
         /\ rate_limit_tracker[ev.client].dms_sent = (IF ev.result THEN 1 ELSE 0)
    /\ (ev.op = "send_dm" /\ ev.at - ev.before.last_dm_reset <= HOUR) =>
         /\ rate_limit_tracker[ev.client].last_dm_reset = ev.before.last_dm_reset
         /\ ev.result => ev.before.dms_sent < max_dm_per_hour

\* C1 witness: a client that had used up its window was checked more than an
\* hour after the window's start, and the send was granted
C1_Witness ==
    /\ ev.op = "send_dm"
    /\ ev.before.dms_sent = max_dm_per_hour
    /\ ev.at - ev.before.last_dm_reset > HOUR
    /\ ev.result
    /\ rate_limit_tracker[ev.client].dms_sent = 1

-----------------------------------------------------------------------------
(* Claims on the classifier (SpecClassify).  The keyword groups below are  *)
(* the ones the specification document lists; matching is restated here     *)
(* character by character.                                                  *)

CaselessContains(text, w) ==
    \E off \in 0..(Len(text) - Len(w)) :
        \A j \in 1..Len(w) : LowerChar(text[off + j]) = w[j]

Matches(text, group) == \E w \in group : CaselessContains(text, w)

DocPricing ==
    { <<"p", "r", "i", "c", "i", "n", "g">>,
      <<"c", "o", "s", "t">>,
      <<"p", "r", "i", "c", "e">>,
      <<"h", "o", "w", " ", "m", "u", "c", "h">> }

DocPortfolio ==
    { <<"p", "o", "r", "t", "f", "o", "l", "i", "o">>,
      <<"w", "o", "r", "k">>,
      <<"e", "x", "a", "m", "p", "l", "e", "s">>,
      <<"s", "a", "m", "p", "l", "e", "s">> }

DocMeeting ==
    { <<"m", "e", "e", "t", "i", "n", "g">>,
      <<"c", "a", "l", "l">>,
      <<"d", "i", "s", "c", "u", "s", "s">>,
      <<"t", "a", "l", "k">> }

DocInterest ==
    { <<"i", "n", "t", "e", "r", "e", "s", "t", "e", "d">>,
      <<"t", "e", "l", "l", " ", "m", "e", " ", "m", "o", "r", "e">>,
      <<"s", "o", "u", "n", "d", "s", " ", "g", "o", "o", "d">> }

DocIndicators ==
    { <<"t", "h", "a", "n", "k", " ", "y", "o", "u">>,
      <<"t", "h", "a", "n", "k", "s">>,
      <<"i", "n", "t", "e", "r", "e", "s", "t", "e", "d">>,
      <<"p", "r", "i", "c", "i", "n", "g">>,
      <<"c", "o", "s", "t">>,
      <<"s", "e", "r", "v", "i", "c", "e", "s">>,
      <<"p", "o", "r", "t", "f", "o", "l", "i", "o">>,
      <<"w", "e", "b", "s", "i", "t", "e">>,
      <<"c", "o", "n", "t", "a", "c", "t">>,
      <<"h", "e", "l", "l", "o">>,
      <<"h", "i">>,
      <<"h", "e", "y">>,
      <<"s", "o", "u", "n", "d", "s", " ", "g", "o", "o", "d">>,
      <<"l", "o", "o", "k", "s", " ", "g", "r", "e", "a", "t">> }

TextPricingQuestion == <<"W", "h", "a", "t", "'", "s", " ", "y", "o", "u", "r", " ", "p", "r", "i", "c", "i", "n", "g", "?">>

TextCallQuestion == <<"C", "a", "n", " ", "w", "e", " ", "s", "e", "t", " ", "u", "p", " ", "a", " ", "c", "a", "l", "l", "?">>

TextHello == <<"h", "e", "l", "l", "o">>

TextThanksInterested == <<"t", "h", "a", "n", "k", "s", ",", " ", "i", "n", "t", "e", "r", "e", "s", "t", "e", "d", "!">>

TextAsdfgh == <<"a", "s", "d", "f", "g", "h">>

TextTellMeMore == <<"t", "e", "l", "l", " ", "m", "e", " ", "m", "o", "r", "e">>

\* C6: the stage is the one of the first keyword group, in the order pricing,
\* portfolio, meeting, interest, of which the text contains a keyword as a
\* case-insensitive substring, and initial when it contains none; the three
\* example sentences classify as pricing_inquiry, meeting_request, initial.
C6_StagePriority ==
    ev.op = "classify" =>
        LET p  == Matches(ev.text, DocPricing)
            pf == Matches(ev.text, DocPortfolio)
            m  == Matches(ev.text, DocMeeting)
            i  == Matches(ev.text, DocInterest)
            st == ev.outreach_stage
        IN  /\ (st = "pricing_inquiry")   <=> p
            /\ (st = "portfolio_request") <=> (~p /\ pf)
            /\ (st = "meeting_request")   <=> (~p /\ ~pf /\ m)
            /\ (st = "initial_interest")  <=> (~p /\ ~pf /\ ~m /\ i)
            /\ (st = "initial")           <=> (~p /\ ~pf /\ ~m /\ ~i)
            /\ (ev.text = TextPricingQuestion => st = "pricing_inquiry")
            /\ (ev.text = TextCallQuestion => st = "meeting_request")
            /\ (ev.text = TextHello => st = "initial")

\* C6 witness: a classified text with keywords of the pricing and the
\* portfolio group (in upper case), which gets the earlier group's stage
C6_Witness ==
    /\ ev.op = "classify"
    /\ Matches(ev.text, DocPricing)
    /\ Matches(ev.text, DocPortfolio)
    /\ ~Contains(ev.text, <<"p", "o", "r", "t", "f", "o", "l", "i", "o">>)
    /\ ev.outreach_stage = "pricing_inquiry"

\* C7 as stated: _is_outreach_response is true exactly for the texts that
\* contain a keyword of the fourteen listed ones
C7_Original ==
    ev.op = "classify" =>
        (ev.is_outreach_response <=> Matches(ev.text, DocIndicators))

\* C7 amended: _is_outreach_response is true exactly for the texts that
\* contain, as a case-insensitive substring, one of the fourteen listed
\* keywords or "tell me more"; true for "thanks, interested!", false for
\* "asdfgh".
C7_IndicatorsWithTellMeMore ==
    ev.op = "classify" =>
        /\ ev.is_outreach_response <=>
                Matches(ev.text, DocIndicators \cup { TextTellMeMore })
        /\ (ev.text = TextThanksInterested => ev.is_outreach_response)
        /\ (ev.text = TextAsdfgh => ~ev.is_outreach_response)

\* C7 witness: "tell me more", which holds none of the fourteen keywords,
\* has been classified as an outreach response
C7_Witness ==
    /\ ev.op = "classify"
    /\ ev.text = TextTellMeMore
    /\ ~Matches(ev.text, DocIndicators)
    /\ ev.is_outreach_response

-----------------------------------------------------------------------------
(* Claims on discovery (SpecDiscover).                                     *)

Usernames(rows) == { rows[i].username : i \in DOMAIN rows }

EntriesOf(rows, u) == { i \in DOMAIN rows : rows[i].username = u }

MaxFollowers(rows, u) ==
    CHOOSE n \in { rows[i].follower_count : i \in EntriesOf(rows, u) } :
        \A i \in EntriesOf(rows, u) : rows[i].follower_count <= n

\* C4: the table target_accounts never holds two rows with one username
C4_UniqueUsernames ==
    \A i, j \in DOMAIN target_accounts :
        target_accounts[i].username = target_accounts[j].username => i = j

\* C4 witness: a discovery run that was offered a username the table held
\* already, and that inserted a row for another one
C4_Witness ==
    /\ ev.op = "discover_target_accounts"
    /\ ev.saved > 0
    /\ ev.known # { }
    /\ Len(target_accounts) > 1

\* C5: for every username among the candidates found, the de-duplicated
\* candidates (unique_accounts) hold exactly one entry, which carries the
\* highest follower count found for that username, in whatever order the
\* candidates came; the list returned holds entries of unique_accounts only,
\* none twice.
C5_DedupKeepsHighest ==
    ev.op = "search_accounts_by_keywords" =>
        /\ Usernames(ev.unique) = Usernames(ev.accounts)
        /\ \A u \in Usernames(ev.accounts) :
              /\ Cardinality(EntriesOf(ev.unique, u)) = 1
              /\ \A i \in EntriesOf(ev.unique, u) :
                    /\ ev.unique[i].follower_count = MaxFollowers(ev.accounts, u)
                    /\ \E k \in EntriesOf(ev.accounts, u) : ev.accounts[k] = ev.unique[i]
        /\ \A i \in DOMAIN ev.returned :
              /\ \E k \in DOMAIN ev.unique : ev.unique[k] = ev.returned[i]
              /\ Cardinality(EntriesOf(ev.returned, ev.returned[i].username)) = 1

\* C5 witness: one username was found with 500 followers and, later in the
\* list, with 1500; the entry kept and returned has 1500
C5_Witness ==
    /\ ev.op = "search_accounts_by_keywords"
    /\ \E i, j \in DOMAIN ev.accounts :
           /\ i < j
           /\ ev.accounts[i].username = ev.accounts[j].username
           /\ ev.accounts[i].follower_count = 500
           /\ ev.accounts[j].follower_count = 1500
           /\ \E k \in DOMAIN ev.returned :
                  /\ ev.returned[k].username = ev.accounts[i].username
                  /\ ev.returned[k].follower_count = 1500


-----------------------------------------------------------------------------
(* Claims on the outreach batch                                            *)

RowOf(u) == target_accounts[IndexOfUsername(target_accounts, u)]

SentTo(u, t) == { k \in DOMAIN sent : sent[k].to = u /\ sent[k].at = t }

WithinCooldown(account, t) ==
    /\ account.last_contacted # NEVER
    /\ t - account.last_contacted < COOLDOWN_DAYS * DAY

PastCooldown(account, t) ==
    /\ account.last_contacted # NEVER
    /\ t - account.last_contacted > COOLDOWN_DAYS * DAY

\* C2: an account examined in a batch whose last_contacted is less than 7
\* days before now is counted in skipped, nothing is sent to it and its row
\* is left as it was; an account whose last_contacted is more than 7 days
\* old (with fewer than 3 attempts and not blocked) is not skipped.  The
\* timestamps are those of the table, which the process found at start.
C2_CooldownSkips ==
    ev.op = "iterate" =>
        /\ WithinCooldown(ev.before, ev.at) =>
              /\ ev.outcome = "skipped"
              /\ tasks[ev.task].results =
                    [ev.results EXCEPT !.skipped = ev.results.skipped + 1]
              /\ SentTo(ev.username, ev.at) = { }
              /\ RowOf(ev.username) = ev.before
        /\ ( /\ PastCooldown(ev.before, ev.at)
             /\ ev.before.contact_attempts < 3
             /\ ev.before.status \notin { "blocked", "not_interested" } ) =>
              ev.outcome # "skipped"

\* a row contacted six days ago has been examined and skipped
C2_Witness ==
    /\ ev.op = "iterate"
    /\ ev.outcome = "skipped"
    /\ ev.before.last_contacted = ev.at - 6 * DAY
    /\ tasks[ev.task].results.skipped = 1

\* C8: a successful send leaves the account with status contacted,
\* last_contacted equal to the send time and contact_attempts one higher,
\* and adds one to success only; a pending account with no attempts and no
\* last_contacted, with a permit available, the profile fetched and the send
\* delivered, is such a send and ends with contact_attempts 1.
C8_SuccessfulSend ==
    ev.op = "iterate" =>
        /\ ( /\ ev.before.status = "pending"
             /\ ev.before.contact_attempts = 0
             /\ ev.before.last_contacted = NEVER
             /\ ev.quota /\ ev.fetch_ok /\ ev.delivers ) =>
              /\ ev.outcome = "sent"
              /\ RowOf(ev.username).contact_attempts = 1
        /\ ev.outcome = "sent" =>
              /\ RowOf(ev.username) =
                    [ev.before EXCEPT !.status = "contacted",
                                      !.last_contacted = ev.at,
                                      !.contact_attempts = ev.before.contact_attempts + 1]
              /\ tasks[ev.task].results =
                    [ev.results EXCEPT !.success = ev.results.success + 1]
              /\ SentTo(ev.username, ev.at) # { }

C8_Witness ==
    /\ ev.op = "iterate"
    /\ ev.outcome = "sent"
    /\ ev.before.status = "pending"
    /\ ev.before.contact_attempts = 0
    /\ ev.before.last_contacted = NEVER
    /\ RowOf(ev.username).status = "contacted"
    /\ tasks[ev.task].results.success = 1

\* C10, as the specification states it: once send_dm has been refused a
\* permit in a batch, no later account of that batch is examined, and the
\* refusal adds nothing to failed.
C10_StopsAtDenial ==
    ev.op = "iterate" =>
        /\ tasks[ev.task].denied \in { 0, ev.position }
        /\ ev.outcome = "quota_denied" =>
              tasks[ev.task].results.failed = ev.results.failed

\* C3: two successful outreach messages to the same account are at least 7
\* days apart, however the two batches interleave.
C3_NoDoubleContact ==
    \A j \in DOMAIN sent : \A k \in DOMAIN sent :
        ( j < k /\ sent[j].kind = "outreach" /\ sent[k].kind = "outreach"
                /\ sent[j].to = sent[k].to ) =>
            sent[k].at - sent[j].at >= COOLDOWN_DAYS * DAY

\* one batch examines an account that the other, still running, has
\* contacted since both fetched it
C3_Witness ==
    /\ ev.op = "iterate"
    /\ ev.outcome = "skipped"
    /\ ev.before.status = "contacted"
    /\ \E k \in DOMAIN sent : sent[k].to = ev.username /\ sent[k].kind = "outreach"
    /\ \A t \in Tasks : tasks[t].pc # "idle"


-----------------------------------------------------------------------------
(* Claims on the inbound message handler                                   *)

MessagesOf(id) == { k \in DOMAIN messages : messages[k].conversation_id = id }

\* C9: for "What's the pricing for a property shoot?" from a user with no
\* conversation, with auto-response on, urgency low, a permit available and
\* the send delivered, process_incoming_dm creates the one conversation of
\* that user, sets its outreach_stage to pricing_inquiry, returns the
\* pricing-inquiry template, and appends the inbound message followed by
\* exactly one message from the agent, which is that template.
C9_PricingScenario ==
    ( /\ ev.op = "process_incoming_dm"
      /\ ev.content = TextPricingShoot
      /\ ~ev.existed
      /\ enable_auto_response
      /\ ev.urgency = "low"
      /\ ev.quota /\ ev.delivers ) =>
        /\ Cardinality({ k \in DOMAIN conversations :
                            conversations[k].instagram_user_id = ev.user_id }) = 1
        /\ get_conversation(conversations, ev.user_id) = ev.conversation_id
        /\ conversations[ev.conversation_id].conversation_context.outreach_stage
              = "pricing_inquiry"
        /\ ev.returned = _handle_pricing_inquiry
        /\ Len(messages) = ev.messages_before + 2
        /\ MessagesOf(ev.conversation_id) = { Len(messages) - 1, Len(messages) }
        /\ messages[Len(messages) - 1] =
              [ conversation_id |-> ev.conversation_id, content |-> TextPricingShoot,
                is_from_agent |-> FALSE ]
        /\ messages[Len(messages)] =
              [ conversation_id |-> ev.conversation_id,
                content |-> _handle_pricing_inquiry, is_from_agent |-> TRUE ]

C9_Witness ==
    /\ ev.op = "process_incoming_dm"
    /\ ev.content = TextPricingShoot
    /\ ~ev.existed
    /\ enable_auto_response
    /\ ev.urgency = "low"
    /\ ev.quota /\ ev.delivers
    /\ ev.returned = _handle_pricing_inquiry
    /\ Len(conversations) = 2


-----------------------------------------------------------------------------
(* Claims on the quotas of the send paths                                  *)

OutreachSentSince(t) ==
    { k \in DOMAIN sent : sent[k].kind = "outreach" /\ sent[k].at >= t
                                                   /\ sent[k].at - t <= DAY }

\* C11, as the specification states it: the outreach messages sent by the
\* batches within the 24 hours that follow the start of the outreach window
\* of the client are at most max_outreach_per_day.
C11_DailyOutreachCap ==
    Cardinality(OutreachSentSince(rate_limit_tracker["outreach_manager"].last_outreach_reset))
        <= max_outreach_per_day


\* C12, as the specification states it: the messages that all send paths
\* together send within one hourly window are at most max_dm_per_hour.  The
\* window taken is the first hour after the start, which is the first window
\* of every tracker, each being constructed at the start.
C12_SharedHourlyCap ==
    Cardinality({ k \in DOMAIN sent : sent[k].at - StartTime <= HOUR }) <= max_dm_per_hour


-----------------------------------------------------------------------------
(* Claims on the conversations                                             *)

\* C13: whatever inbound messages the two poll loops hand to
\* process_incoming_dm, no two Conversation rows have the same
\* instagram_user_id.
C13_OneConversationPerUser ==
    \A j \in DOMAIN conversations : \A k \in DOMAIN conversations :
        conversations[j].instagram_user_id = conversations[k].instagram_user_id => j = k

\* a second message of a user has been handled, the empty id among the users
C13_Witness ==
    /\ ev.op = "process_incoming_dm"
    /\ ev.existed
    /\ ev.messages_before >= 1
    /\ \E k \in DOMAIN conversations : conversations[k].instagram_user_id = ""
    /\ \E k \in DOMAIN conversations : conversations[k].instagram_user_id # ""


-----------------------------------------------------------------------------
(* Claims on the status of a target account                                *)

\* the place of a status on the way pending, contacted, responded, converted
StatusRank(status) ==
    IF status = "pending" THEN 0
    ELSE IF status = "contacted" THEN 1
    ELSE IF status = "responded" THEN 2
    ELSE 3

\* C14, as the specification states it: no step changes the status of an
\* account that is blocked or not_interested, and no step moves a status
\* backward along pending, contacted, responded, converted.
C14_StatusOneDirectional ==
    [][ \A k \in DOMAIN target_accounts :
          LET old == target_accounts[k].status
              new == target_accounts'[k].status
          IN  /\ old \in { "blocked", "not_interested" } => new = old
              /\ ( old \notin { "blocked", "not_interested" }
                   /\ new \notin { "blocked", "not_interested" } ) =>
                     StatusRank(new) >= StatusRank(old) ]_vars


-----------------------------------------------------------------------------
(* Claims on the supervisor                                                *)

\* C15: when the login fails in start(), start returns False, is_running
\* is False, no loop exists, and from then on nothing is polled, stored or
\* sent: the tables and the log of sent messages are as at construction.
C15_LoginFailureAborts ==
    agent.start = "returned False" =>
        /\ ~agent.is_running
        /\ agent.tasks = { }
        /\ ev.op \in { "start", "stop" }
        /\ sent = << >>
        /\ messages = << >>
        /\ conversations = << >>
        /\ \A k \in DOMAIN target_accounts : target_accounts[k].status = "pending"

\* main() has stopped the agent after the failed start
C15_Witness ==
    /\ agent.start = "returned False"
    /\ ev.op = "stop"
    /\ agent.stopped
    /\ agent.stop["main"] = "returned"

-----------------------------------------------------------------------------
(* Eligibility, failed sends and pacing in execute_outreach_batch           *)

MaxedOut(account) ==
    \/ account.contact_attempts >= 3
    \/ account.status \in { "blocked", "not_interested" }

ClosedStatuses == { "blocked", "not_interested" }

\* C16: an account with contact_attempts >= 3, or with status blocked or
\* not_interested, that a batch examines is counted in skipped, no profile
\* fetch and no send is made for it and its row is unchanged; the skip test
\* itself answers yes for every such row, whatever its last contact.
C16_NeverSendsToMaxedOut ==
    /\ \A status \in ClosedStatuses \cup { "pending", "contacted" },
          attempts \in 0..4, last \in { NEVER, now - DAY, now - 8 * DAY } :
          LET account == SeedAccount("u1", status, last, attempts)
          IN  MaxedOut(account) => _should_skip_account(account, now)
    /\ (ev.op = "iterate" /\ MaxedOut(ev.before)) =>
          /\ ev.outcome = "skipped"
          /\ tasks[ev.task].results =
                 [ev.results EXCEPT !.skipped = ev.results.skipped + 1]
          /\ RowOf(ev.username) = ev.before
          /\ \A k \in 1..Len(sent) : ~(sent[k].to = ev.username /\ sent[k].at = ev.at)

C16_Witness ==
    /\ ev.op = "iterate"
    /\ ev.before.contact_attempts = 3
    /\ ev.before.last_contacted < ev.at - COOLDOWN_DAYS * DAY
    /\ ev.fetch_ok /\ ev.delivers /\ ev.quota
    /\ ev.outcome = "skipped"
    /\ tasks[ev.task].results.skipped = 1

\* a send that was tried and did not go through
FailedSend == ev.op = "iterate" /\ ev.outcome \in { "send_failed", "quota_denied" }

\* C17: when the send fails, failed grows by one, success and skipped do
\* not, and the account's row (status, last_contacted, contact_attempts) is
\* what it was, so a pending account is still pending.
C17_FailedSendLeavesRow ==
    FailedSend =>
       /\ tasks[ev.task].results =
              [ev.results EXCEPT !.failed = ev.results.failed + 1]
       /\ RowOf(ev.username).status = ev.before.status
       /\ RowOf(ev.username).last_contacted = ev.before.last_contacted
       /\ RowOf(ev.username).contact_attempts = ev.before.contact_attempts
       /\ ev.before.status = "pending"
       /\ \A k \in 1..Len(sent) : ~(sent[k].to = ev.username /\ sent[k].at = ev.at)

C17_Witness ==
    /\ FailedSend
    /\ ev.outcome = "send_failed"
    /\ ev.before.contact_attempts = 1
    /\ tasks[ev.task].results.failed = 1
    /\ RowOf(ev.username).status = "pending"

\* C18: after a failed send the coroutine goes on to the next account
\* without sleeping.
C18_NoDelayAfterFailedSend ==
    FailedSend => tasks[ev.task].pc = "loop"

\* the outreach messages delivered before the examination that ev records
EarlierSends ==
    { k \in 1..Len(sent) : sent[k].kind = "outreach" /\ sent[k].to # ev.username }

\* C19: the accounts of a batch are examined one at a time in the order of
\* the fetched list, and an account is examined no sooner than
\* min_delay_between_messages plus the shortest random delay after every
\* earlier successful send of the batch.
C19_PacingAfterSuccess ==
    /\ \A t \in DOMAIN tasks :
          tasks[t].pc # "idle" => tasks[t].i \in 1..(Len(tasks[t].accounts) + 1)
    /\ ev.op = "iterate" =>
          /\ tasks[ev.task].i = ev.position + 1
          /\ \A k \in EarlierSends :
                ev.at >= sent[k].at + MIN_DELAY_BETWEEN_MESSAGES + RANDOM_DELAY_MIN
    /\ \A j, k \in 1..Len(sent) :
          (j < k /\ sent[j].kind = "outreach" /\ sent[k].kind = "outreach") =>
             sent[k].at >= sent[j].at + MIN_DELAY_BETWEEN_MESSAGES + RANDOM_DELAY_MIN

C19_Witness ==
    /\ ev.op = "iterate"
    /\ ev.position = 2
    /\ ev.outcome = "sent"
    /\ \E k \in EarlierSends :
          ev.at = sent[k].at + MIN_DELAY_BETWEEN_MESSAGES + RANDOM_DELAY_MIN

-----------------------------------------------------------------------------
(* The choice of the reply in process_incoming_dm                            *)

\* the canned message of a stage, "" for a stage that has none
StageTemplate(stage) ==
    CASE stage = "initial_interest" -> _handle_initial_interest
      [] stage = "pricing_inquiry" -> _handle_pricing_inquiry
      [] stage = "portfolio_request" -> _handle_portfolio_request
      [] stage = "meeting_request" -> _handle_meeting_request
      [] OTHER -> ""

\* the context stored for the conversation of the message that ev records
StoredContext == conversations[ev.conversation_id].conversation_context

\* the reply that the priority order gives
ReplyByPriority(context, urgency, auto_response, ai_reply) ==
    IF ~auto_response THEN ""
    ELSE IF urgency = "high" THEN ai_reply
    ELSE IF context.is_outreach_response /\ StageTemplate(context.outreach_stage) # ""
    THEN StageTemplate(context.outreach_stage)
    ELSE ai_reply

OutreachStages ==
    { "initial", "initial_interest", "pricing_inquiry", "portfolio_request",
      "meeting_request", "unrecognized", NULL }

\* C20: with auto-response disabled there is no reply, nothing is sent and
\* no agent message is stored; else a message of high urgency gets the
\* generic reply whatever the stage; else a conversation marked as an
\* outreach response gets the canned message of its stored stage, and the
\* generic reply when the stage has none; else the generic reply.
C20_ReplyPriority ==
    /\ \A stage \in OutreachStages, marked \in BOOLEAN, urgency \in Urgencies,
          ai_reply \in AiReplies :
          LET context == [EmptyContext EXCEPT !.is_outreach_response = marked,
                                              !.outreach_stage = stage]
          IN  _generate_contextual_response(context, urgency,
                                            enable_auto_response, ai_reply)
                 = ReplyByPriority(context, urgency, enable_auto_response, ai_reply)
    /\ ev.op = "process_incoming_dm" =>
          /\ ev.response = ReplyByPriority(StoredContext, ev.urgency,
                                           enable_auto_response, ev.ai_reply)
          /\ ~enable_auto_response =>
                /\ ev.returned = NULL
                /\ Len(messages) = ev.messages_before + 1
                /\ sent = << >>
                /\ StoredContext.last_response = EmptyContext.last_response

C20_Witness ==
    /\ ev.op = "process_incoming_dm"
    /\ enable_auto_response
    /\ ev.urgency = "high"
    /\ ev.content = DmOther
    /\ StoredContext.is_outreach_response
    /\ StoredContext.outreach_stage = "pricing_inquiry"
    /\ ev.response = "generate_dm_response"
    /\ ev.returned = "generate_dm_response"

-----------------------------------------------------------------------------
(* Replies that were not delivered, and the stage after each message        *)

AgentMessages == { k \in DOMAIN messages : messages[k].is_from_agent }

\* the latest reply stored for conversation id, NULL when there is none
LastReplyOf(id) ==
    LET mine == MessagesOf(id) \cap AgentMessages
    IN  IF mine = { } THEN NULL
        ELSE messages[CHOOSE k \in mine : \A j \in mine : j <= k].content

\* C21: when a reply was chosen and the send did not go through (the
\* platform raised, or no permit was left), the call returns none and stores
\* the inbound message only; the agent messages stored are as many as the
\* replies delivered, and last_response of every conversation is the latest
\* reply stored for it, so a failed send leaves it as it was.
C21_NoRecordOfUnsentReply ==
    /\ ( /\ ev.op = "process_incoming_dm"
         /\ ev.response # ""
         /\ ~(ev.delivers /\ ev.quota) ) =>
            /\ ev.returned = NULL
            /\ Len(messages) = ev.messages_before + 1
            /\ ~messages[Len(messages)].is_from_agent
    /\ Cardinality(AgentMessages) = Len(sent)
    /\ \A id \in DOMAIN conversations :
          conversations[id].conversation_context.last_response = LastReplyOf(id)

\* C21 witness: a reply to a second message of a conversation was not
\* delivered; the conversation keeps the reply to its first message
C21_Witness ==
    /\ ev.op = "process_incoming_dm"
    /\ ev.existed
    /\ ev.response = "generate_dm_response"
    /\ ~ev.delivers
    /\ ev.returned = NULL
    /\ StoredContext.last_response = _handle_pricing_inquiry
    /\ Cardinality(MessagesOf(ev.conversation_id)) = 3

\* the stage of a text by the keyword groups, in their order
StageOf(text) ==
    IF Matches(text, DocPricing) THEN "pricing_inquiry"
    ELSE IF Matches(text, DocPortfolio) THEN "portfolio_request"
    ELSE IF Matches(text, DocMeeting) THEN "meeting_request"
    ELSE IF Matches(text, DocInterest) THEN "initial_interest"
    ELSE "initial"

SeenAsResponse(text) == Matches(text, DocIndicators \cup { TextTellMeMore })

StageOfText == [ text \in Texts |-> StageOf(text) ]
SeenAsResponseText == [ text \in Texts |-> SeenAsResponse(text) ]

\* C22: after an inbound message that is taken for an outreach response the
\* conversation is marked and its stored stage is the stage of that message,
\* whatever was stored before.
C22_StageNotSticky ==
    (ev.op = "process_incoming_dm" /\ SeenAsResponseText[ev.content]) =>
        /\ StoredContext.is_outreach_response
        /\ StoredContext.outreach_stage = StageOfText[ev.content]

\* C22 witness: "hello" arrived in a conversation whose earlier message asked
\* for the pricing; the stage is initial
C22_Witness ==
    /\ ev.op = "process_incoming_dm"
    /\ ev.content = DmHello
    /\ ev.existed
    /\ \E k \in MessagesOf(ev.conversation_id) :
          /\ k <= ev.messages_before
          /\ messages[k].content = TextPricingShoot
          /\ ~messages[k].is_from_agent
    /\ StoredContext.outreach_stage = "initial"

-----------------------------------------------------------------------------
(* Shutdown                                                                  *)

LoopOps ==
    { "process_incoming_dm", "monitor_responses", "_periodic_cleanup",
      "_run_outreach_campaigns" }

\* C23: the repository is closed and the client logged out only when every
\* loop has ended, a call of stop() returns only then, and the last thing a
\* loop did lies before the close.
C23_CloseAfterTasksEnd ==
    /\ agent.db_closed => (agent.tasks = { } /\ ~agent.is_running)
    /\ \A c \in StopCallers :
          agent.stop[c] = "returned" =>
             (agent.db_closed /\ ~agent.is_logged_in /\ agent.tasks = { })
    /\ ev.op \in LoopOps => ~agent.db_closed

\* C23 witness: after a signal, with messages answered before it, both calls
\* of stop() have returned
C23_Witness ==
    /\ agent.stop["signal"] = "returned"
    /\ agent.stop["main"] = "returned"
    /\ agent.db_closed
    /\ Len(sent) > 0
    /\ agent.tasks = { }

\* C24: after the shutdown signal no loop starts a send: the messages
\* delivered are the ones delivered when the signal arrived.
C24_NoSendAfterSignal ==
    agent.stop["signal"] # "not called" => Len(sent) = agent.signal_sent

-----------------------------------------------------------------------------
(* The loops after an error                                                  *)

\* C25: while the agent runs every loop that start() created is alive,
\* whatever its cycles raised; and a cycle of the inbound-poll loop comes
\* 60 s after one that raised and 30 s after one that did not, of the
\* outreach-response loop 300 s and 60 s, of the campaign runner 1800 s and
\* 3600 s.
C25_LoopsSurviveErrors ==
    /\ agent.start = "running" =>
          /\ agent.is_running
          /\ Loops \subseteq agent.tasks
          /\ \A l \in agent.tasks : agent.last[l].at # NEVER => agent.wake[l] > agent.last[l].at
    /\ (ev.op = "cycle" /\ ev.last.at # NEVER) =>
          ev.at - ev.last.at =
             IF ev.loop = "_monitor_dms" THEN (IF ev.last.error THEN 60 ELSE 30)
             ELSE IF ev.loop = "_monitor_outreach_responses"
                  THEN (IF ev.last.error THEN 300 ELSE 60)
             ELSE IF ev.loop = "_run_outreach_campaigns"
                  THEN (IF ev.last.error THEN 1800 ELSE 3600)
             ELSE ev.at - ev.last.at

\* C25 witness: the campaign runner starts a cycle 1800 s after one that
\* raised, and the inbound-poll loop, which raised as well, is still alive
C25_Witness ==
    /\ ev.op = "cycle"
    /\ ev.loop = "_run_outreach_campaigns"
    /\ ev.last.error
    /\ ev.at = ev.last.at + 1800
    /\ agent.last["_monitor_dms"].error
    /\ "_monitor_dms" \in agent.tasks

-----------------------------------------------------------------------------
(* The campaign runner and the cleanup sweep                                 *)

\* C26: when a cycle of the campaign-batch runner has run, a batch has been
\* executed for every campaign whose status is active.
C26_BatchForActiveCampaigns ==
    ev.op = "_run_outreach_campaigns" =>
        /\ ~ev.error
        /\ \A c \in DOMAIN campaigns :
               campaigns[c].status = "active" =>
                   \E t \in Tasks : tasks[t].campaign_id = c /\ tasks[t].runs > 0

\* C27: when a run of the cleanup sweep is over, every conversation whose
\* last message is more than 7 days old is inactive, and every other
\* conversation is active.
C27_SweepMarksSilent ==
    (ev.op = "cycle" /\ ev.loop = "_periodic_cleanup") =>
        \A k \in DOMAIN conversations :
            conversations[k].is_active
                <=> ~(conversations[k].last_message_time < now - 7 * DAY)

-----------------------------------------------------------------------------
(* Claims on the discovery filter (SpecFilter, SpecDiscover)                 *)

ReturnedUsernames == { ev.returned[k].username : k \in DOMAIN ev.returned }

\* C28: every row of the accounts table is the row of a public user, has
\* between 100 and 100000 followers, both included, and has status pending;
\* and the list a discovery call returns is the list of the rows it
\* inserted, each of them for an account the search gave.
C28_PersistedAccounts ==
    /\ \A k \in DOMAIN target_accounts :
          /\ target_accounts[k].status = "pending"
          /\ target_accounts[k].follower_count >= 100
          /\ target_accounts[k].follower_count <= 100000
          /\ \A u \in Users \cup SmallUsers :
                u.username = target_accounts[k].username => ~u.is_private
    /\ ev.op = "discover_target_accounts" =>
          /\ ev.saved = Len(ev.returned)
          /\ ev.returned = SubSeq(target_accounts, Len(target_accounts) - ev.saved + 1,
                                  Len(target_accounts))
          /\ \A k \in DOMAIN ev.returned :
                \E j \in DOMAIN ev.discovered :
                    /\ ev.discovered[j].username = ev.returned[k].username
                    /\ ev.discovered[j].follower_count = ev.returned[k].follower_count

\* C28 witness: the search gave a private account and an account with
\* 100000 followers; the call inserted and returned the second one only
C28_Witness ==
    /\ ev.op = "discover_target_accounts"
    /\ Len(ev.returned) = 1
    /\ ev.returned[1].follower_count = 100000
    /\ \E j \in DOMAIN ev.discovered :
          /\ ev.discovered[j].is_private
          /\ ev.discovered[j].username \notin ev.known
          /\ ev.discovered[j].username \notin ReturnedUsernames

\* C29: a candidate that is new, public and within the follower range is
\* persisted exactly when its bio or full name holds one of the campaign's
\* industry keywords or the campaign's location, whatever the case of the
\* letters.
C29_RelevanceFilter ==
    ev.op = "discover_target_accounts" =>
        \A j \in DOMAIN ev.discovered :
            LET account == ev.discovered[j]
                campaign == campaigns[ev.campaign_id]
            IN  ( /\ account.username \notin ev.known
                  /\ ~account.is_private
                  /\ account.follower_count >= 100
                  /\ account.follower_count <= 100000 ) =>
                    ( account.username \in ReturnedUsernames
                        <=> \/ HasIndustryKeyword(account, campaign.target_industry)
                            \/ InBioOrName(account, campaign.target_location) )

\* C30: the accounts_targeted counter of a campaign is the number of the
\* accounts that the discovery runs of the campaign have inserted.
C30_CounterIsTotal ==
    \A c \in DOMAIN campaigns :
        campaigns[c].accounts_targeted =
            Cardinality({ k \in DOMAIN target_accounts :
                            target_accounts[k].category = campaigns[c].target_industry })

\* C31: when the platform raised an error for one keyword of a discovery
\* run, the users found for the other keywords who pass the filters of the
\* run (relevant for the search, found with no higher follower count under
\* the same username, public, within the follower range, with an industry
\* keyword) are in the accounts table after the run.
C31_OtherKeywordsPersisted ==
    (ev.op = "discover_target_accounts" /\ ev.raised) =>
        \A k \in DOMAIN ev.found :
            LET user == ev.found[k]
                campaign == campaigns[ev.campaign_id]
            IN  ( /\ IsRelevant[user, campaign.target_location]
                  /\ \A m \in DOMAIN ev.found :
                        ev.found[m].username = user.username
                            => ev.found[m].follower_count <= user.follower_count
                  /\ ~user.is_private
                  /\ user.follower_count >= 100
                  /\ user.follower_count <= 100000
                  /\ HasIndustryKeyword(user, campaign.target_industry) ) =>
                    \E j \in DOMAIN target_accounts :
                        target_accounts[j].username = user.username

\* C32: after a discovery run every row that was in the accounts table
\* before the run is as it was (status, contact_attempts, last_contacted and
\* the other columns), at its place, and no username has two rows.
C32_KnownAccountsUntouched ==
    /\ \A i, j \in DOMAIN target_accounts :
          target_accounts[i].username = target_accounts[j].username => i = j
    /\ ev.op = "discover_target_accounts" =>
          /\ Len(ev.before) <= Len(target_accounts)
          /\ \A k \in DOMAIN ev.before : target_accounts[k] = ev.before[k]

\* C32 witness: the search gave u1, which the table holds as contacted,
\* responded or blocked, together with a new account that was inserted
C32_Witness ==
    /\ ev.op = "discover_target_accounts"
    /\ "u1" \in ev.known
    /\ ev.before[1].status \in { "contacted", "responded", "blocked" }
    /\ ev.saved = 1
    /\ target_accounts[1] = ev.before[1]

-----------------------------------------------------------------------------
(* The cap over a rolling hour                                               *)

\* C33: in every interval of one hour, wherever it starts, a client has
\* sent at most max_dm_per_hour DMs: the DMs a client sends from the time
\* of any one of its DMs up to an hour later are at most max_dm_per_hour.
C33_RollingHourCap ==
    \A i \in DOMAIN sent :
        Cardinality({ j \in DOMAIN sent :
                        /\ sent[j].client = sent[i].client
                        /\ sent[j].at >= sent[i].at
                        /\ sent[j].at < sent[i].at + HOUR }) <= max_dm_per_hour

-----------------------------------------------------------------------------
(* Repeated polls of one message (SpecPoll)                                  *)

InboundRows(id) ==
    { k \in DOMAIN messages :
        messages[k].conversation_id = id /\ ~messages[k].is_from_agent }

\* C34: a poll returns nothing only when no thread ends with a message of
\* its user; a message that is still the latest of its thread is processed
\* by every poll, and each time another inbound Message is stored and
\* message_count goes up by one: the inbound rows and message_count of a
\* user's conversation are as many as the polls that returned a message of
\* the user, however few messages the user wrote.
C34_RepeatedPollsReprocess ==
    /\ ev.op = "get_unread_dms" =>
          \A u \in DOMAIN threads :
              threads[u].message_id = 0 \/ threads[u].is_from_me
    /\ \A u \in DOMAIN threads :
          LET id == get_conversation(conversations, u)
          IN  IF id = 0 THEN threads[u].processed = 0
              ELSE /\ Cardinality(InboundRows(id)) = threads[u].processed
                   /\ conversations[id].conversation_context.message_count
                          = threads[u].processed
    /\ ev.op = "process_incoming_dm" =>
          /\ threads[ev.user_id].polls >= 1
          /\ Len(messages) > ev.messages_before

\* C34 witness: the user wrote one message; the first poll returned it and
\* its reply was not delivered, the second poll returned it again, stored it
\* a second time and sent a reply
C34_Witness ==
    /\ ev.op = "process_incoming_dm"
    /\ threads[ev.user_id].message_id = 2
    /\ threads[ev.user_id].is_from_me
    /\ threads[ev.user_id].polls = 2
    /\ Cardinality(InboundRows(ev.conversation_id)) = 2
    /\ conversations[ev.conversation_id].conversation_context.message_count = 2
    /\ Len(sent) = 1

-----------------------------------------------------------------------------
(* The platform sessions (SpecAgent)                                         *)

\* the client instances that are logged in
LoggedIn ==
    { c \in Clients : IF c = "agent" THEN agent.is_logged_in
                                     ELSE agent.manager_logins[c] }

\* C35: at any time at most one platform client is logged in, and after
\* stop() has returned none is.
C35_OneSession ==
    /\ Cardinality(LoggedIn) <= 1
    /\ agent.stopped => LoggedIn = { }

-----------------------------------------------------------------------------
(* The results of a batch (SpecBatch)                                        *)

Total(results) == results.success + results.failed + results.skipped

\* C36: while a batch runs, the three counters add up to the number of
\* accounts examined so far; the results that a batch on an existing
\* campaign returns add up to the number of accounts examined, which is
\* the smaller of batch_size and the number of pending accounts that
\* matched the campaign; a batch on an unknown campaign id returns zeros and
\* sends nothing.
C36_ResultsAddUp ==
    /\ \A t \in DOMAIN tasks :
          tasks[t].pc # "idle" =>
              /\ Total(tasks[t].results) \in { tasks[t].i - 1, tasks[t].i }
              /\ tasks[t].pc = "loop" => Total(tasks[t].results) = tasks[t].i - 1
    /\ ev.op = "execute_outreach_batch" =>
          IF ev.campaign_id \in DOMAIN campaigns
          THEN /\ Total(ev.results) = Len(ev.examined)
               /\ Len(ev.examined) = IF ev.batch_size < ev.matching
                                     THEN ev.batch_size ELSE ev.matching
          ELSE /\ ev.results = [ success |-> 0, failed |-> 0, skipped |-> 0 ]
               /\ Len(sent) = ev.sent_before

\* C36 witness: a batch of size 2 on a campaign with four pending accounts
\* returned with one account skipped and one sent to
C36_Witness ==
    /\ ev.op = "execute_outreach_batch"
    /\ ev.campaign_id \in DOMAIN campaigns
    /\ ev.batch_size = 2
    /\ ev.matching = 4
    /\ ev.results = [ success |-> 1, failed |-> 0, skipped |-> 1 ]

-----------------------------------------------------------------------------
(* The conversation of a sender (SpecAgent)                                  *)

\* C37: a message handed to process_incoming_dm, by either poll loop, is
\* stored in the conversation whose key is the user id of its sender, and
\* the reply to it is sent to that user id (so that no conversation holds
\* messages of two users).
C37_KeyedBySender ==
    ev.op = "process_incoming_dm" =>
        /\ conversations[ev.conversation_id].instagram_user_id = PkOfUsername[ev.username]
        /\ ev.returned # NULL => sent[Len(sent)].to = PkOfUsername[ev.username]

-----------------------------------------------------------------------------
(* The mark and the stage of a conversation over later messages (SpecConv)  *)

\* C38: the outreach-response mark of a conversation, once set, stays set;
\* a message that is not taken for an outreach response leaves the stored
\* stage of its conversation as it was; and when the conversation was
\* marked, auto-response is on and the urgency is not high, the reply to
\* such a message is the canned message of the stage stored before it (the
\* generic reply only when that stage has none).
C38_StageOfEarlierMessage ==
    [][ \A id \in DOMAIN conversations :
          LET old == conversations[id].conversation_context
              new == conversations'[id].conversation_context
          IN  /\ old.is_outreach_response => new.is_outreach_response
              /\ ( /\ ev'.op = "process_incoming_dm"
                   /\ ev'.conversation_id = id
                   /\ ~SeenAsResponseText[ev'.content] ) =>
                     /\ new.outreach_stage = old.outreach_stage
                     /\ ( /\ old.is_outreach_response
                          /\ enable_auto_response
                          /\ ev'.urgency # "high" ) =>
                            ev'.response =
                               IF StageTemplate(old.outreach_stage) # ""
                               THEN StageTemplate(old.outreach_stage)
                               ELSE ev'.ai_reply
      ]_vars

\* C38 witness: "asdfgh", of low urgency, arrived in a conversation whose
\* earlier message asked for the pricing, and was answered with the pricing
\* message
C38_Witness ==
    /\ ev.op = "process_incoming_dm"
    /\ ev.content = DmOther
    /\ ev.urgency = "low"
    /\ ev.existed
    /\ \E k \in MessagesOf(ev.conversation_id) :
          /\ k <= ev.messages_before
          /\ messages[k].content = TextPricingShoot
          /\ ~messages[k].is_from_agent
    /\ StoredContext.is_outreach_response
    /\ StoredContext.outreach_stage = "pricing_inquiry"
    /\ ev.returned = _handle_pricing_inquiry

-----------------------------------------------------------------------------
(* Accounts behind those that stay pending (SpecRepeat)                      *)

\* C39: under repeated batches, u3 (pending, never contacted, matching the
\* campaign) is in the end examined by a batch, whatever happens to the
\* accounts ahead of it, unless the clock has reached its end before.
C39_EligibleExaminedInTheEnd ==
    <>( \/ ev.op = "iterate" /\ ev.username = "u3"
        \/ now >= EndTime )

-----------------------------------------------------------------------------
(* Signed webhook requests (SpecWebhook)                                     *)

\* the header is sha256=<the HMAC-SHA256 of the body under the secret>
CarriesCorrectHmac(APP_SECRET, payload, signature) ==
    signature = << "sha256", hexdigest(APP_SECRET, payload) >>

\* C40: with APP_SECRET configured, a request whose X-Hub-Signature-256
\* header does not carry the correct HMAC-SHA256 of the body (it is wrong,
\* missing or empty) is answered with 403 and no reply is sent.
C40_UnsignedRejected ==
    ( /\ ev.op = "receive"
      /\ ev.APP_SECRET # ""
      /\ ~CarriesCorrectHmac(ev.APP_SECRET, ev.payload, ev.signature) ) =>
        /\ ev.status = 403
        /\ sent = << >>

\* with APP_SECRET configured, a request whose header is present and does
\* not end in the correct digest is answered with 403 and no reply is sent
C40_WrongRejected ==
    ( /\ ev.op = "receive"
      /\ ev.APP_SECRET # ""
      /\ ev.signature # << "" >>
      /\ ~( Len(ev.signature) = 2
            /\ ev.signature[2] = hexdigest(ev.APP_SECRET, ev.payload) ) ) =>
        /\ ev.status = 403
        /\ sent = << >>

=============================================================================
